---- MODULE Spec2Model ----
\* Verification model of the UI capture system:
\*   - Engine.run_workflow          (src/core/engine.py)
\*   - retry / exp_backoff_delays_ms (src/utils/timing.py)
\*   - LocatorStrategy.choose and the convenience wrappers
\*                                  (src/selectors/strategy.py)
\*   - load_workflows_file          (src/core/workflow_loader.py)
\*   - execute_step / _do_screenshot (src/core/actions.py) and
\*     MetadataBuilder.record        (src/capture/metadata.py)
\*   - several runs of Engine.run_workflow in one process, with
\*     attach_file_logger / detach_file_logger (src/utils/logger.py)
\*   - the run command cmd_run     (src/cli.py)
EXTENDS Integers, Sequences, FiniteSets, TLC

\* ------------------------------------------------------------------
\* Bounds of the model
\* ------------------------------------------------------------------
MaxSteps == 2
MaxTries == 3
MaxFail == 3
MaxRetries == 2
MaxCands == 3
MaxDocs == 3
MaxShots == 2
MaxClock == 2
MaxLogs == 2
MaxTargets == 2
MaxModals == 2

None == "None"

\* ------------------------------------------------------------------
\* State
\* ------------------------------------------------------------------
VARIABLES
    \* ---- Engine.run_workflow ----
    wf,                 \* the Workflow passed to run_workflow
    CONTINUE_ON_ERROR,  \* Settings.CONTINUE_ON_ERROR
    interactive_auth,   \* Engine.interactive_auth
    storage_exists,     \* storage_path.exists()
    pc,                 \* position inside run_workflow
    idx,                \* loop variable of the step loop (1-based)
    run_dir,            \* ctx.run_dir once _prepare_run_dirs has returned
    failed_step_info,   \* local failed_step_info
    steps_meta,         \* local steps_meta
    prev_url,           \* local prev_url
    url,                \* page.url
    browser,            \* the headless browser: "none" | "open" | "closed"
    vis,                \* the visible login browser: "none" | "open" | "closed"
    authFrom,           \* which copy of the re-auth code is running
    metadata_json,      \* the steps list of metadata.json once written
    result,             \* the dict returned by run_workflow
    trace,              \* history: step/session events in the order they occur
    abortAt,            \* history: where the exception that ended the run was raised
    \* ---- retry() and the LocatorStrategy wrappers ----
    caller,             \* "retry" or the wrapper that called retry
    tries,              \* the tries argument of retry
    retries,            \* the retries argument of the wrapper
    failFirst,          \* fn raises on its first failFirst invocations
    rpc,                \* position inside retry
    attempt,            \* loop variable attempt
    delaysLeft,         \* values the backoff generator has still to yield
    gen_delay,          \* local delay of the generator exp_backoff_delays_ms
    delay,              \* loop variable delay: the value the generator yielded
    last_exc,           \* local last_exc
    calls,              \* history: invocation log of fn
    sleeps,             \* history: the sleep_ms calls made
    outcome,            \* what retry / the wrapper returned or raised
    \* ---- LocatorStrategy.choose ----
    selectors,          \* the candidate list with what the page reports for each
    require_visible,    \* keyword argument of choose
    cpc,                \* position inside choose
    cidx,               \* loop variable idx of choose
    errors,             \* local errors
    first_present,      \* local first_present
    waited,             \* history: candidates wait_for was called on
    chosen              \* the ChosenLocator returned or the error raised

engineVars == <<wf, CONTINUE_ON_ERROR, interactive_auth, storage_exists, pc, idx,
                run_dir, failed_step_info, steps_meta, prev_url, url, browser, vis,
                authFrom, metadata_json, result, trace, abortAt>>
retryVars == <<caller, tries, retries, failFirst, rpc, attempt, delaysLeft, gen_delay, delay,
               last_exc, calls, sleeps, outcome>>
chooseVars == <<selectors, require_visible, cpc, cidx, errors, first_present,
                waited, chosen>>

VARIABLES
    \* ---- load_workflows_file ----
    file,               \* the file at path: does it exist, does it parse, its documents
    lpc,                \* position inside load_workflows_file
    lidx,               \* loop variable idx (1-based document position)
    out,                \* local out
    loaded,             \* the list returned or the error raised
    single              \* what load_workflow returns or raises for the same file

loadVars == <<file, lpc, lidx, out, loaded, single>>

VARIABLES
    \* ---- execute_step on the steps of one run, _do_screenshot ----
    shot_steps,         \* the steps the engine passes to execute_step, in order
    MAX_RETRIES,        \* Settings.MAX_RETRIES
    spc,                \* position inside the step loop / execute_step
    sidx,               \* step._index, the 1-based index the engine sets
    sattempt,           \* invocation number of the operation inside retry
    images,             \* image files of the run directory (by step)
    sidecars,           \* sidecar files of the run directory (by step)
    captures_jsonl,     \* the lines of captures.jsonl
    completed           \* history: how each completed step completed

shotVars == <<shot_steps, MAX_RETRIES, spc, sidx, sattempt, images, sidecars,
              captures_jsonl, completed>>

VARIABLES
    \* ---- several runs of Engine.run_workflow in one process ----
    now,                \* the wall clock, in ticks
    run_pc,             \* position of each run inside run_workflow
    run_task,           \* the site/task of the workflow of each run
    run_dirs,           \* ctx.run_dir of each run
    handlers,           \* the per-run handlers attached to the root logger
    run_log,            \* the records written through each run's handler
    emitted             \* how many records each run has emitted

runsVars == <<now, run_pc, run_task, run_dirs, handlers, run_log, emitted>>

VARIABLES
    \* ---- cmd_run ----
    cli_mode,           \* "targets" (positional TARGETS) or "dir" (--dir)
    cli_files,          \* the files given as targets / found under --dir
    parallel,           \* run_parallel
    cli_pc,             \* position inside cmd_run
    workflows,          \* local workflows: the files collected to be run
    wpc,                \* position of each _run_one(path) call
    wresults,           \* local results of each _run_one call
    wstarted,           \* history: run_workflow calls made by each _run_one call
    results,            \* local results of cmd_run
    printed,            \* the OK / ERR lines echoed, in order
    exit_code           \* the status passed to sys.exit

cliVars == <<cli_mode, cli_files, parallel, cli_pc, workflows, wpc, wresults,
             wstarted, results, printed, exit_code>>

VARIABLES
    \* ---- execute_step on one step, and the result of the run it fails ----
    kstep,              \* the step passed to execute_step
    ktries,             \* local tries of execute_step
    kpc,                \* position inside execute_step / the step loop
    kattempt,           \* invocation number of the operation inside retry
    kpage,              \* what the page shows during the current invocation
    kexc,               \* class of the exception the last invocation raised
    error_type          \* result["error_type"] of the run

kindVars == <<kstep, ktries, kpc, kattempt, kpage, kexc, error_type>>

VARIABLES
    \* ---- ModalDetector.detect_active ----
    candidates,         \* what the page reports for each candidate element
    dpc,                \* position inside detect_active
    di,                 \* loop variable i (1-based)
    best,               \* local best: the position of the candidate it holds, 0 for None
    detected            \* the value returned: a candidate's position, 0 for None

modalVars == <<candidates, dpc, di, best, detected>>

VARIABLES
    \* ---- AnimationDetector.wait_until_idle / wait_for_animations_to_finish ----
    afn,                \* which of the two functions was called
    apage,              \* the computed styles of the page's animated element
    min_idle_ms,        \* argument min_idle_ms
    apc,                \* position inside the function
    polls,              \* iterations of "for _ in range(10)" begun
    wait_ms,            \* local ms: the wait the page script suggested
    slept,              \* history: the sum of the arguments of page.wait_for_timeout
    longest             \* history: the largest argument of page.wait_for_timeout

animVars == <<afn, apage, min_idle_ms, apc, polls, wait_ms, slept, longest>>

VARIABLES
    \* ---- wait_for_dom_stable ----
    wall,               \* Date.now() of the page: milliseconds since the epoch
    mono_offset,        \* wall minus time.monotonic_ns() // 1_000_000 of the process
    settle_ms,          \* argument settle_ms
    max_wait,           \* local max_wait
    deadline,           \* local deadline
    dom_last,           \* window.__uiCap.domCounter.last
    dom_pc,             \* position inside wait_for_dom_stable
    called_at,          \* history: wall when the function was called
    age_at_poll,        \* history: age of the last mutation at the latest poll
    dom_how             \* history: which return statement ended the function

domVars == <<wall, mono_offset, settle_ms, max_wait, deadline, dom_last, dom_pc,
             called_at, age_at_poll, dom_how>>

moreVars == <<kindVars, modalVars, animVars, domVars>>

auxVars == <<loadVars, shotVars, runsVars, cliVars, moreVars>>

vars == <<engineVars, retryVars, chooseVars, auxVars>>

\* ------------------------------------------------------------------
\* Workflows and URLs
\* ------------------------------------------------------------------
ActionNames == {"goto", "click"}

StepShapes == [action : ActionNames, optional : BOOLEAN]

\* steps of length n; each step carries its label (step.name), here its position
StepLists(n) ==
    { [i \in 1..n |-> [action |-> k[i].action, optional |-> k[i].optional, name |-> i]] :
        k \in [1..n -> StepShapes] }

Workflows ==
    { [steps |-> s, use_storage_state |-> u] :
        s \in UNION { StepLists(n) : n \in 0..MaxSteps }, u \in BOOLEAN }

\* a URL is the sequence of words it is made of
Urls == { <<"app">>, <<"app", "login">> }

LoginKeywords == {"login", "signin", "auth", "session", "accounts.google.com"}

_looks_like_login(u) == \E i \in DOMAIN u : u[i] \in LoginKeywords

NoResult == [ok |-> None]

\* failed_step_info = None
NoFailedStep == [index |-> 0, action |-> None, name |-> 0]

NoAbort == [phase |-> None, idx |-> 0]

NoMetadata == [written |-> FALSE, steps |-> <<>>]

Event(e, i, h) == [ev |-> e, i |-> i, how |-> h]

EngineIdle ==
    /\ wf = [steps |-> <<>>, use_storage_state |-> FALSE]
    /\ pc = "idle"
    /\ idx = 0
    /\ run_dir = None
    /\ failed_step_info = NoFailedStep
    /\ steps_meta = <<>>
    /\ prev_url = <<>>
    /\ url = <<>>
    /\ browser = "none"
    /\ vis = "none"
    /\ authFrom = None
    /\ metadata_json = NoMetadata
    /\ result = NoResult
    /\ trace = <<>>
    /\ abortAt = NoAbort

\* an exception object: its type and the invocation of fn that raised it
Exc(t, n) == [type |-> t, at |-> n]

NoExc == Exc(None, 0)

NoOutcome == [kind |-> None, exc |-> NoExc, cause |-> NoExc]

RetryIdle ==
    /\ caller = None
    /\ tries = 0
    /\ retries = 0
    /\ failFirst = 0
    /\ rpc = "idle"
    /\ attempt = 0
    /\ delaysLeft = 0
    /\ gen_delay = 0
    /\ delay = 0
    /\ last_exc = NoExc
    /\ calls = <<>>
    /\ sleeps = <<>>
    /\ outcome = NoOutcome

NoChoice == [status |-> None, index |-> 0, how |-> None, message |-> <<>>]

ChooseIdle ==
    /\ selectors = <<>>
    /\ require_visible = TRUE
    /\ cpc = "idle"
    /\ cidx = 0
    /\ errors = <<>>
    /\ first_present = {}
    /\ waited = <<>>
    /\ chosen = NoChoice

NoLoad == [status |-> None, workflows |-> <<>>, position |-> 0, what |-> None]

NoSingle == [status |-> None, workflow |-> None, what |-> None]

LoadIdle ==
    /\ file = [exists |-> TRUE, parses |-> TRUE, docs |-> <<>>]
    /\ lpc = "idle"
    /\ lidx = 0
    /\ out = <<>>
    /\ loaded = NoLoad
    /\ single = NoSingle

ShotIdle ==
    /\ shot_steps = <<>>
    /\ MAX_RETRIES = 0
    /\ spc = "idle"
    /\ sidx = 0
    /\ sattempt = 0
    /\ images = {}
    /\ sidecars = {}
    /\ captures_jsonl = <<>>
    /\ completed = <<>>

\* two runs of the same process
RunIds == {"run_a", "run_b"}

NoDir == [task |-> None, ts |-> 0 - 1]

RunsIdle ==
    /\ now = 0
    /\ run_pc = [r \in RunIds |-> "idle"]
    /\ run_task = [r \in RunIds |-> None]
    /\ run_dirs = [r \in RunIds |-> NoDir]
    /\ handlers = {}
    /\ run_log = [r \in RunIds |-> <<>>]
    /\ emitted = [r \in RunIds |-> 0]

CliIdle ==
    /\ cli_mode = "targets"
    /\ cli_files = <<>>
    /\ parallel = FALSE
    /\ cli_pc = "idle"
    /\ workflows = <<>>
    /\ wpc = <<>>
    /\ wresults = <<>>
    /\ wstarted = <<>>
    /\ results = <<>>
    /\ printed = <<>>
    /\ exit_code = 0 - 1

NoPage == [in_state |-> FALSE, text_ok |-> FALSE, url_ok |-> FALSE]

KindIdle ==
    /\ kstep = [action |-> None, optional |-> FALSE]
    /\ ktries = 0
    /\ kpc = "idle"
    /\ kattempt = 0
    /\ kpage = NoPage
    /\ kexc = None
    /\ error_type = None

ModalIdle ==
    /\ candidates = <<>>
    /\ dpc = "idle"
    /\ di = 0
    /\ best = 0
    /\ detected = 0

NoStyles == [tDur |-> 0, tDelay |-> 0, aDur |-> 0, aDelay |-> 0, aIter |-> "1"]

AnimIdle ==
    /\ afn = None
    /\ apage = NoStyles
    /\ min_idle_ms = 0
    /\ apc = "idle"
    /\ polls = 0
    /\ wait_ms = 0
    /\ slept = 0
    /\ longest = 0

DomIdle ==
    /\ wall = 0
    /\ mono_offset = 0
    /\ settle_ms = 0
    /\ max_wait = 0
    /\ deadline = 0
    /\ dom_last = 0
    /\ dom_pc = "idle"
    /\ called_at = 0
    /\ age_at_poll = 0
    /\ dom_how = None

MoreIdle ==
    /\ KindIdle
    /\ ModalIdle
    /\ AnimIdle
    /\ DomIdle

AuxIdle ==
    /\ LoadIdle
    /\ ShotIdle
    /\ RunsIdle
    /\ CliIdle
    /\ MoreIdle

\* ------------------------------------------------------------------
\* Engine.run_workflow
\* ------------------------------------------------------------------
Init ==
    /\ EngineIdle
    /\ RetryIdle
    /\ ChooseIdle
    /\ AuxIdle
    /\ CONTINUE_ON_ERROR \in BOOLEAN
    /\ interactive_auth \in BOOLEAN
    /\ storage_exists \in BOOLEAN

CurStep == wf.steps[idx]

\* mutant: the loop passes over a step
NextIndex_Skips(i) == i + 2

\* enumerate(wf.steps, start=1): the index of the next iteration
NextIndex(i) == i + 1

\* "if is_optional or s.CONTINUE_ON_ERROR"
Tolerated(step) == step.optional \/ CONTINUE_ON_ERROR

\* failed_step_info = {"index": idx, "action": ..., "name": step.name}
FailedStepInfo(i, step) == [index |-> i, action |-> step.action, name |-> step.name]

\* mutant: a changed URL outranks a detected modal
CaptureReason_UrlFirst(i, has_modal, url_changed) ==
    IF i = 1 THEN "workflow_start"
    ELSE IF url_changed THEN "url_changed"
    ELSE IF has_modal THEN "modal_appeared"
    ELSE "step_executed"

\* capture_reason = 'workflow_start' if idx == 1 else ('modal_appeared' if
\*   has_modal else ('url_changed' if url_changed else 'step_executed'))
CaptureReason(i, has_modal, url_changed) ==
    IF i = 1 THEN "workflow_start"
    ELSE IF has_modal THEN "modal_appeared"
    ELSE IF url_changed THEN "url_changed"
    ELSE "step_executed"

\* mutant: the record is numbered by its position in steps_meta
StepRecord_Counted(i, step, cur_url, prev, has_modal) ==
    [step_number |-> Len(steps_meta) + 1,
     description |-> step.name,
     action |-> step.action,
     url |-> cur_url,
     changed_from_previous |-> (prev # cur_url),
     has_modal |-> has_modal,
     capture_reason |-> CaptureReason(i, has_modal, prev # cur_url)]

\* the record appended to steps_meta
StepRecord(i, step, cur_url, prev, has_modal) ==
    [step_number |-> i,
     description |-> step.name,
     action |-> step.action,
     url |-> cur_url,
     changed_from_previous |-> (prev # cur_url),
     has_modal |-> has_modal,
     capture_reason |-> CaptureReason(i, has_modal, prev # cur_url)]

\* an exception raised inside the inner try of run_workflow
Raise(phase) ==
    /\ abortAt' = [phase |-> phase, idx |-> idx]
    /\ pc' = "abort"

\* "if use_state and (not storage_path or not storage_path.exists())
\*     and self.interactive_auth"
NeedsInitialAuth ==
    wf.use_storage_state /\ ~storage_exists /\ interactive_auth

\* mutant: the login heuristic is applied whatever interactive_auth says
LoginDetected_Always(step, u) ==
    step.action = "goto" /\ _looks_like_login(u)

\* "if self.interactive_auth and step.action == ActionName.goto:
\*      if _looks_like_login(page.url)"
LoginDetected(step, u) ==
    interactive_auth /\ step.action = "goto" /\ _looks_like_login(u)

\* "if storage_path and storage_path.exists():
\*      context_kwargs["storage_state"] = str(storage_path)"
SessionState == IF wf.use_storage_state /\ storage_exists THEN "with_state" ELSE None

\* ctx = self._prepare_run_dirs(wf)
PrepareRunDirs ==
    /\ pc = "idle"
    /\ \E w \in Workflows : wf' = w
    /\ \/ /\ run_dir' = "run_dir"
          /\ pc' = "manifest"
          /\ UNCHANGED abortAt
       \/ /\ pc' = "raised"
          /\ abortAt' = [phase |-> "prepare", idx |-> 0]
          /\ UNCHANGED run_dir
    /\ UNCHANGED <<CONTINUE_ON_ERROR, interactive_auth, storage_exists, idx,
                   failed_step_info, steps_meta, prev_url, url, browser, vis,
                   authFrom, metadata_json, result, trace>>
    /\ UNCHANGED <<retryVars, chooseVars, auxVars>>

\* self._write_manifest(wf, ctx); attach_file_logger(...): both outside any try
WriteManifest ==
    /\ pc = "manifest"
    /\ \/ /\ pc' = "launch"
          /\ UNCHANGED abortAt
       \/ /\ pc' = "raised"
          /\ abortAt' = [phase |-> "manifest", idx |-> 0]
    /\ UNCHANGED <<wf, CONTINUE_ON_ERROR, interactive_auth, storage_exists, idx,
                   run_dir, failed_step_info, steps_meta, prev_url, url, browser,
                   vis, authFrom, metadata_json, result, trace>>
    /\ UNCHANGED <<retryVars, chooseVars, auxVars>>

\* with sync_playwright() as p: browser = browser_type.launch(...)
\* (inside the outer try/finally only: an exception here is not caught)
LaunchBrowser ==
    /\ pc = "launch"
    /\ \/ /\ browser' = "open"
          /\ pc' = "session"
          /\ trace' = Append(trace, Event("open_headless", 0, None))
          /\ UNCHANGED abortAt
       \/ /\ pc' = "raised"
          /\ abortAt' = [phase |-> "launch", idx |-> 0]
          /\ UNCHANGED <<browser, trace>>
    /\ UNCHANGED <<wf, CONTINUE_ON_ERROR, interactive_auth, storage_exists, idx,
                   run_dir, failed_step_info, steps_meta, prev_url, url, vis,
                   authFrom, metadata_json, result>>
    /\ UNCHANGED <<retryVars, chooseVars, auxVars>>

\* context = browser.new_context(...); page = context.new_page();
\* then the test "use_state and not storage_path.exists() and interactive_auth"
SessionInit ==
    /\ pc = "session"
    /\ \/ /\ IF NeedsInitialAuth
             THEN /\ pc' = "auth_close"
                  /\ authFrom' = "init"
                  /\ UNCHANGED idx
             ELSE /\ pc' = "loop"
                  /\ idx' = 1
                  /\ UNCHANGED authFrom
          /\ UNCHANGED abortAt
       \/ /\ Raise("session")
          /\ UNCHANGED <<idx, authFrom>>
    /\ UNCHANGED <<wf, CONTINUE_ON_ERROR, interactive_auth, storage_exists,
                   run_dir, failed_step_info, steps_meta, prev_url, url, browser,
                   vis, metadata_json, result, trace>>
    /\ UNCHANGED <<retryVars, chooseVars, auxVars>>

\* for idx, step in enumerate(wf.steps, start=1): step_log.info("Step idx/n")
ForStep ==
    /\ pc = "loop"
    /\ IF idx <= Len(wf.steps)
       THEN /\ pc' = "exec"
            /\ trace' = Append(trace, Event("start", idx, None))
       ELSE /\ pc' = "finalize"
            /\ UNCHANGED trace
    /\ UNCHANGED <<wf, CONTINUE_ON_ERROR, interactive_auth, storage_exists, idx,
                   run_dir, failed_step_info, steps_meta, prev_url, url, browser,
                   vis, authFrom, metadata_json, result, abortAt>>
    /\ UNCHANGED <<retryVars, chooseVars, auxVars>>

\* actions.execute_step(page, step, ...) returned; then
\* "if self.interactive_auth and step.action == goto and _looks_like_login(page.url)"
ExecuteStepOk ==
    /\ pc = "exec"
    /\ \E u \in Urls :
          /\ url' = u
          /\ IF LoginDetected(CurStep, u)
             THEN /\ pc' = "auth_close"
                  /\ authFrom' = "step"
             ELSE /\ pc' = "record"
                  /\ UNCHANGED authFrom
    /\ trace' = Append(trace, Event("exec", idx, "ok"))
    /\ UNCHANGED <<wf, CONTINUE_ON_ERROR, interactive_auth, storage_exists, idx,
                   run_dir, failed_step_info, steps_meta, prev_url, browser, vis,
                   metadata_json, result, abortAt>>
    /\ UNCHANGED <<retryVars, chooseVars, auxVars>>

\* what the except clause of the step does with a failure it does not tolerate
FatalStep ==
    /\ failed_step_info' = FailedStepInfo(idx, CurStep)
    /\ trace' = trace \o <<Event("exec", idx, "raise"), Event("end", idx, "failed")>>
    /\ Raise("exec")
    /\ UNCHANGED idx

\* actions.execute_step(...) raised: the except clause of the step
ExecuteStepRaise ==
    /\ pc = "exec"
    /\ IF Tolerated(CurStep)
       THEN /\ idx' = NextIndex(idx)
            /\ pc' = "loop"
            /\ trace' = trace \o <<Event("exec", idx, "raise"), Event("end", idx, "skipped")>>
            /\ UNCHANGED <<failed_step_info, abortAt>>
       ELSE FatalStep
    /\ UNCHANGED <<wf, CONTINUE_ON_ERROR, interactive_auth, storage_exists,
                   run_dir, steps_meta, prev_url, url, browser, vis, authFrom,
                   metadata_json, result>>
    /\ UNCHANGED <<retryVars, chooseVars, auxVars>>

\* the page.goto / storage_state part of both copies of the re-auth code;
\* the copy at the top of the run (authFrom = "init") and the copy of the
\* step loop (authFrom = "step") are the same statements

\* context.close(); browser.close()  (both in try/except: pass)
AuthCloseHeadless ==
    /\ pc = "auth_close"
    /\ browser' = "closed"
    /\ pc' = "auth_vis"
    /\ trace' = Append(trace, Event("close_headless", idx, "auth"))
    /\ UNCHANGED <<wf, CONTINUE_ON_ERROR, interactive_auth, storage_exists, idx,
                   run_dir, failed_step_info, steps_meta, prev_url, url, vis,
                   authFrom, metadata_json, result, abortAt>>
    /\ UNCHANGED <<retryVars, chooseVars, auxVars>>

\* vis = browser_type.launch(headless=False, ...)
AuthLaunchVisible ==
    /\ pc = "auth_vis"
    /\ \/ /\ vis' = "open"
          /\ pc' = "auth_ensure"
          /\ trace' = Append(trace, Event("open_vis", idx, None))
          /\ UNCHANGED abortAt
       \/ /\ Raise("auth")
          /\ UNCHANGED <<vis, trace>>
    /\ UNCHANGED <<wf, CONTINUE_ON_ERROR, interactive_auth, storage_exists, idx,
                   run_dir, failed_step_info, steps_meta, prev_url, url, browser,
                   authFrom, metadata_json, result>>
    /\ UNCHANGED <<retryVars, chooseVars, auxVars>>

\* _ensure_auth_interactively up to input(): returns None at once when the
\* workflow has no storage state path, else opens a page and navigates
AuthNavigate ==
    /\ pc = "auth_ensure"
    /\ IF ~wf.use_storage_state
       THEN /\ pc' = "auth_visclose"
            /\ UNCHANGED <<vis, trace, abortAt>>
       ELSE \/ /\ pc' = "auth_wait"
               /\ trace' = Append(trace, Event("navigate_vis", idx, None))
               /\ UNCHANGED <<vis, abortAt>>
            \/ /\ Raise("auth")
               /\ vis' = "closed"
               /\ trace' = Append(trace, Event("close_vis", idx, None))
    /\ UNCHANGED <<wf, CONTINUE_ON_ERROR, interactive_auth, storage_exists, idx,
                   run_dir, failed_step_info, steps_meta, prev_url, url, browser,
                   authFrom, metadata_json, result>>
    /\ UNCHANGED <<retryVars, chooseVars, auxVars>>

\* input("continue...") returns
AuthHumanConfirm ==
    /\ pc = "auth_wait"
    /\ pc' = "auth_persist"
    /\ trace' = Append(trace, Event("human_confirm", idx, None))
    /\ UNCHANGED <<wf, CONTINUE_ON_ERROR, interactive_auth, storage_exists, idx,
                   run_dir, failed_step_info, steps_meta, prev_url, url, browser,
                   vis, authFrom, metadata_json, result, abortAt>>
    /\ UNCHANGED <<retryVars, chooseVars, auxVars>>

\* context.storage_state(path=...); context.close()
AuthPersist ==
    /\ pc = "auth_persist"
    /\ \/ /\ storage_exists' = TRUE
          /\ pc' = "auth_visclose"
          /\ trace' = Append(trace, Event("persist", idx, None))
          /\ UNCHANGED <<vis, abortAt>>
       \/ /\ Raise("auth")
          /\ vis' = "closed"
          /\ trace' = Append(trace, Event("close_vis", idx, None))
          /\ UNCHANGED storage_exists
    /\ UNCHANGED <<wf, CONTINUE_ON_ERROR, interactive_auth, idx,
                   run_dir, failed_step_info, steps_meta, prev_url, url, browser,
                   authFrom, metadata_json, result>>
    /\ UNCHANGED <<retryVars, chooseVars, auxVars>>

\* finally: vis.close()
AuthCloseVisible ==
    /\ pc = "auth_visclose"
    /\ vis' = "closed"
    /\ pc' = "auth_reopen"
    /\ trace' = Append(trace, Event("close_vis", idx, None))
    /\ UNCHANGED <<wf, CONTINUE_ON_ERROR, interactive_auth, storage_exists, idx,
                   run_dir, failed_step_info, steps_meta, prev_url, url, browser,
                   authFrom, metadata_json, result, abortAt>>
    /\ UNCHANGED <<retryVars, chooseVars, auxVars>>

\* browser = browser_type.launch(headless=...); new_context(...); new_page()
AuthReopenHeadless ==
    /\ pc = "auth_reopen"
    /\ \/ /\ browser' = "open"
          /\ trace' = Append(trace, Event("open_headless", idx, SessionState))
          /\ IF authFrom = "init"
             THEN /\ pc' = "loop"
                  /\ idx' = 1
             ELSE /\ pc' = "reexec"
                  /\ UNCHANGED idx
          /\ UNCHANGED abortAt
       \/ /\ Raise("auth")
          /\ UNCHANGED <<browser, trace, idx>>
    /\ UNCHANGED <<wf, CONTINUE_ON_ERROR, interactive_auth, storage_exists,
                   run_dir, failed_step_info, steps_meta, prev_url, url, vis,
                   authFrom, metadata_json, result>>
    /\ UNCHANGED <<retryVars, chooseVars, auxVars>>

\* mutant: the URL the re-executed step lands on is tested like the first one
AfterReExecute_Rechecks(step, u) ==
    IF LoginDetected(step, u) THEN "auth_close" ELSE "record"

\* what follows the second execute_step: the post-step wait and the record of
\* the step; page.url is not tested again
AfterReExecute(step, u) == "record"

\* the second actions.execute_step(page, step, ...) of the iteration, after
\* re-authentication; it is outside the step's try/except
ReExecuteStep ==
    /\ pc = "reexec"
    /\ \/ /\ \E u \in Urls :
                /\ url' = u
                /\ pc' = AfterReExecute(CurStep, u)
          /\ trace' = Append(trace, Event("exec", idx, "ok"))
          /\ UNCHANGED abortAt
       \/ /\ Raise("reexec")
          /\ trace' = trace \o <<Event("exec", idx, "raise"), Event("end", idx, "failed")>>
          /\ UNCHANGED url
    /\ UNCHANGED <<wf, CONTINUE_ON_ERROR, interactive_auth, storage_exists, idx,
                   run_dir, failed_step_info, steps_meta, prev_url, browser, vis,
                   authFrom, metadata_json, result>>
    /\ UNCHANGED <<retryVars, chooseVars, auxVars>>

\* the rest of the iteration: post-step wait, page.url,
\* has_modal = bool(modal_det.detect_active(page)), page.title(),
\* steps_meta.append({...}); prev_url = cur_url
RecordStep ==
    /\ pc = "record"
    /\ \/ /\ \E has_modal \in BOOLEAN :
                steps_meta' = Append(steps_meta,
                                     StepRecord(idx, CurStep, url, prev_url, has_modal))
          /\ prev_url' = url
          /\ idx' = NextIndex(idx)
          /\ pc' = "loop"
          /\ trace' = Append(trace, Event("end", idx, "ok"))
          /\ UNCHANGED abortAt
       \/ /\ Raise("record")
          /\ trace' = Append(trace, Event("end", idx, "failed"))
          /\ UNCHANGED <<steps_meta, prev_url, idx>>
    /\ UNCHANGED <<wf, CONTINUE_ON_ERROR, interactive_auth, storage_exists,
                   run_dir, failed_step_info, url, browser, vis,
                   authFrom, metadata_json, result>>
    /\ UNCHANGED <<retryVars, chooseVars, auxVars>>

\* mutant: the exception of the metadata block reaches the handler of the run
MetadataFailure_Propagates ==
    /\ UNCHANGED metadata_json
    /\ Raise("finalize")

\* "except Exception: pass" of the metadata block
MetadataFailure ==
    /\ UNCHANGED <<metadata_json, abortAt>>
    /\ pc' = "close"

\* build meta_doc and write metadata.json, in try/except: pass
WriteMetadata ==
    /\ pc = "finalize"
    /\ \/ /\ metadata_json' = [written |-> TRUE, steps |-> steps_meta]
          /\ pc' = "close"
          /\ UNCHANGED abortAt
       \/ MetadataFailure
    /\ UNCHANGED <<wf, CONTINUE_ON_ERROR, interactive_auth, storage_exists, idx,
                   run_dir, failed_step_info, steps_meta, prev_url, url, browser,
                   vis, authFrom, result, trace>>
    /\ UNCHANGED <<retryVars, chooseVars, auxVars>>

\* context.close() (guarded); browser.close(); return {"ok": True, ...}
CloseAndReturn ==
    /\ pc = "close"
    /\ \/ /\ browser' = "closed"
          /\ result' = [ok |-> TRUE, run_dir |-> run_dir]
          /\ pc' = "done"
          /\ trace' = Append(trace, Event("close_headless", 0, None))
          /\ UNCHANGED abortAt
       \/ /\ Raise("close")
          /\ UNCHANGED <<browser, result, trace>>
    /\ UNCHANGED <<wf, CONTINUE_ON_ERROR, interactive_auth, storage_exists, idx,
                   run_dir, failed_step_info, steps_meta, prev_url, url,
                   vis, authFrom, metadata_json>>
    /\ UNCHANGED <<retryVars, chooseVars, auxVars>>

\* result = {"ok": False, "error": ..., "run_dir": ..., "error_type": ...}
\* plus "failed_step" when failed_step_info is set
FailureResult(info) ==
    IF info # NoFailedStep
    THEN [ok |-> FALSE, error |-> "error", run_dir |-> run_dir,
          error_type |-> "Exception", failed_step |-> info]
    ELSE [ok |-> FALSE, error |-> "error", run_dir |-> run_dir,
          error_type |-> "Exception"]

\* mutant: the handler of the run does not close the browser
CloseQuietly_Skips(b) == b

\* "try: browser.close() except Exception: pass" on the browser the variable
\* refers to: a browser that is open is closed, one already closed stays so
CloseQuietly(b) == IF b = "open" THEN "closed" ELSE b

\* except Exception as e: browser.close() (guarded); build and return the result
AbortHandler ==
    /\ pc = "abort"
    /\ browser' = CloseQuietly(browser)
    /\ trace' = IF browser = "open"
                THEN Append(trace, Event("close_headless", 0, None))
                ELSE trace
    /\ result' = FailureResult(failed_step_info)
    /\ pc' = "done"
    /\ UNCHANGED <<wf, CONTINUE_ON_ERROR, interactive_auth, storage_exists, idx,
                   run_dir, failed_step_info, steps_meta, prev_url, url,
                   vis, authFrom, metadata_json, abortAt>>
    /\ UNCHANGED <<retryVars, chooseVars, auxVars>>

Next ==
    \/ PrepareRunDirs
    \/ WriteManifest
    \/ LaunchBrowser
    \/ SessionInit
    \/ ForStep
    \/ ExecuteStepOk
    \/ ExecuteStepRaise
    \/ AuthCloseHeadless
    \/ AuthLaunchVisible
    \/ AuthNavigate
    \/ AuthHumanConfirm
    \/ AuthPersist
    \/ AuthCloseVisible
    \/ AuthReopenHeadless
    \/ ReExecuteStep
    \/ RecordStep
    \/ WriteMetadata
    \/ CloseAndReturn
    \/ AbortHandler

Spec == Init /\ [][Next]_vars

\* ------------------------------------------------------------------
\* retry and exp_backoff_delays_ms (src/utils/timing.py), and the
\* LocatorStrategy wrappers that call retry (src/selectors/strategy.py)
\* ------------------------------------------------------------------
InitialDelayMs == 200
MaxDelayMs == 2000
Factor == 2
JitterPercent == 10

Max(a, b) == IF a >= b THEN a ELSE b
Min(a, b) == IF a <= b THEN a ELSE b

Wrappers == {"click", "fill", "hover", "check", "select_option"}

\* attempts = max(1, tries)
Attempts(n) == Max(1, n)

\* exp_backoff_delays_ms(attempts=a): "for _ in range(max(1, attempts))"
BackoffCount(a) == Max(1, a)

\* the values "int(min(max_ms, max(0, delay_j)))" can take for a running delay d:
\* delay_j is drawn from [d - d*jitter, d + d*jitter]
YieldedDelays(d) ==
    LET jitter_amt == (d * JitterPercent) \div 100
    IN  IF jitter_amt > 0
        THEN { Min(MaxDelayMs, Max(0, d + j)) : j \in {0 - jitter_amt, 0, jitter_amt} }
        ELSE { Min(MaxDelayMs, Max(0, d)) }

\* delay = min(max_ms, int(math.ceil(delay * factor)))
NextDelay(d) == Min(MaxDelayMs, d * Factor)

\* what one invocation of fn can do: the fn of a plain retry raises on its
\* first failFirst invocations; a wrapper's _do runs choose() and then the
\* browser action, and either of them can raise
FnResults ==
    IF caller = "retry"
    THEN IF Len(calls) < failFirst THEN {"Error"} ELSE {"ok"}
    ELSE {"ok", "SelectorNotFound", "ActionError"}

CallRecord(res) ==
    [choose |-> caller \in Wrappers,
     act |-> (caller \in Wrappers /\ res # "SelectorNotFound"),
     exc |-> IF res = "ok" THEN NoExc ELSE Exc(res, Len(calls) + 1)]

\* "return fn(...)" seen from the caller of retry: a wrapper returns the chosen
\* locator as well
Returned == [kind |-> "return", exc |-> NoExc, cause |-> NoExc]

\* the exception leaving retry, seen from its caller: a wrapper turns it into
\* "raise ActionRetryError(...) from e"
Raised(e) ==
    IF caller \in Wrappers
    THEN [kind |-> "raise", exc |-> Exc("ActionRetryError", 0), cause |-> e]
    ELSE [kind |-> "raise", exc |-> e, cause |-> NoExc]

InitRetry ==
    /\ EngineIdle
    /\ RetryIdle
    /\ ChooseIdle
    /\ AuxIdle
    /\ CONTINUE_ON_ERROR = FALSE
    /\ interactive_auth = TRUE
    /\ storage_exists = FALSE

\* retry(fn, tries=n) up to the for statement
EnterRetry(who, n, r, k) ==
    /\ caller' = who
    /\ tries' = n
    /\ retries' = r
    /\ failFirst' = k
    /\ delaysLeft' = BackoffCount(Attempts(n) - 1)
    /\ gen_delay' = Max(0, InitialDelayMs)
    /\ rpc' = "for"
    /\ UNCHANGED <<attempt, delay, last_exc, calls, sleeps, outcome>>

\* a direct call retry(fn, tries=n) with an fn that raises on its first k calls
CallRetry ==
    /\ rpc = "idle"
    /\ \E n \in 0..MaxTries, k \in 0..MaxFail : EnterRetry("retry", n, 0, k)
    /\ UNCHANGED <<engineVars, chooseVars, auxVars>>

\* click / fill / hover / check / select_option(selectors, retries=r):
\* "return retry(_do, tries=max(1, retries + 1))"
CallWrapper ==
    /\ rpc = "idle"
    /\ \E w \in Wrappers, r \in 0..MaxRetries : EnterRetry(w, Max(1, r + 1), r, 0)
    /\ UNCHANGED <<engineVars, chooseVars, auxVars>>

\* "for attempt, delay in enumerate(exp_backoff_delays_ms(...), start=1)":
\* take the next value of the generator, or leave the loop when it is exhausted
ForAttempt ==
    /\ rpc = "for"
    /\ IF delaysLeft > 0
       THEN /\ \E d \in YieldedDelays(gen_delay) : delay' = d
            /\ gen_delay' = NextDelay(gen_delay)
            /\ delaysLeft' = delaysLeft - 1
            /\ attempt' = attempt + 1
            /\ rpc' = "try"
       ELSE /\ rpc' = "last"
            /\ UNCHANGED <<delay, gen_delay, delaysLeft, attempt>>
    /\ UNCHANGED <<caller, tries, retries, failFirst, last_exc, calls, sleeps, outcome>>
    /\ UNCHANGED <<engineVars, chooseVars, auxVars>>

\* sleep_ms(ms): "if ms <= 0: return"
SleepMs(ms) == IF ms <= 0 THEN sleeps ELSE Append(sleeps, ms)

\* the body of the loop: "try: return fn(...)" and its except clause
TryAttempt ==
    /\ rpc = "try"
    /\ \E res \in FnResults :
          /\ calls' = Append(calls, CallRecord(res))
          /\ IF res = "ok"
             THEN /\ outcome' = Returned
                  /\ rpc' = "done"
                  /\ UNCHANGED <<last_exc, sleeps>>
             ELSE /\ last_exc' = CallRecord(res).exc
                  /\ UNCHANGED outcome
                  /\ IF attempt >= Attempts(tries)
                     THEN /\ rpc' = "last"
                          /\ UNCHANGED sleeps
                     ELSE /\ sleeps' = SleepMs(delay)
                          /\ rpc' = "for"
    /\ UNCHANGED <<caller, tries, retries, failFirst, attempt, delaysLeft, gen_delay, delay>>
    /\ UNCHANGED <<engineVars, chooseVars, auxVars>>

\* "# last attempt (no delay)": try: return fn(...) except: raise exc
LastAttempt ==
    /\ rpc = "last"
    /\ \E res \in FnResults :
          /\ calls' = Append(calls, CallRecord(res))
          /\ outcome' = IF res = "ok" THEN Returned ELSE Raised(CallRecord(res).exc)
    /\ rpc' = "done"
    /\ UNCHANGED <<caller, tries, retries, failFirst, attempt, delaysLeft, gen_delay,
                   delay, last_exc, sleeps>>
    /\ UNCHANGED <<engineVars, chooseVars, auxVars>>

NextRetry ==
    \/ CallRetry
    \/ CallWrapper
    \/ ForAttempt
    \/ TryAttempt
    \/ LastAttempt

SpecRetry == InitRetry /\ [][NextRetry]_vars

\* ------------------------------------------------------------------
\* LocatorStrategy.choose (src/selectors/strategy.py)
\* ------------------------------------------------------------------
\* What the page reports for one candidate selector:
\*   missing    loc.count() == 0
\*   bad        loc.count() raises
\*   visible    a match whose first element is visible
\*   hidden     a match that is not visible and does not become visible
\*   appearing  a match that is not visible at is_visible() and becomes visible
\*              within the wait_for window
\*   flaky      a match for which is_visible() raises
CandidateKinds == {"missing", "bad", "visible", "hidden", "appearing", "flaky"}

CandidateLists == UNION { [1..n -> CandidateKinds] : n \in 0..MaxCands }

\* loc.count()
Count(c) == CASE c = "missing" -> "zero"
              [] c = "bad" -> "error"
              [] OTHER -> "some"

\* loc.first.is_visible(timeout=...): answers at once, does not wait
IsVisible(c) == CASE c = "visible" -> "yes"
                  [] c = "flaky" -> "error"
                  [] OTHER -> "no"

\* loc.wait_for(state="visible", timeout=...)
WaitFor(c) == IF c \in {"visible", "appearing"} THEN "visible" ELSE "timeout"

\* the candidate at 0-based position i, as enumerate(selectors) numbers them
Sel(i) == selectors[i + 1]

Diag(i, what) == [index |-> i, what |-> what]

\* mutant: diagnostics are put in front
AddError_Prepends(errs, d) == <<d>> \o errs

\* errors.append(...)
AddError(errs, d) == Append(errs, d)

\* mutant: the last present candidate is remembered, not the first
Remember_Last(fp, i) == {i}

\* "if first_present is None: first_present = (idx, sel, loc.first)"
Remember(fp, i) == IF fp = {} THEN {i} ELSE fp

\* "\n  ".join(errors or ["<none>"])
Message(errs) == IF errs = <<>> THEN <<Diag(0 - 1, "<none>")>> ELSE errs

InitChoose ==
    /\ EngineIdle
    /\ RetryIdle
    /\ ChooseIdle
    /\ AuxIdle
    /\ CONTINUE_ON_ERROR = FALSE
    /\ interactive_auth = TRUE
    /\ storage_exists = FALSE

\* choose(selectors, require_visible=rv)
CallChoose ==
    /\ cpc = "idle"
    /\ \E sels \in CandidateLists, rv \in BOOLEAN :
          /\ selectors' = sels
          /\ require_visible' = rv
    /\ cidx' = 0
    /\ cpc' = "for"
    /\ UNCHANGED <<errors, first_present, waited, chosen>>
    /\ UNCHANGED <<engineVars, retryVars, auxVars>>

\* one iteration of "for idx, sel in enumerate(selectors)"
ChooseCandidate ==
    /\ cpc = "for"
    /\ cidx < Len(selectors)
    /\ CASE Count(Sel(cidx)) = "zero" ->
              /\ errors' = AddError(errors, Diag(cidx, "none found"))
              /\ cidx' = cidx + 1
              /\ UNCHANGED <<cpc, first_present, chosen>>
         [] Count(Sel(cidx)) = "error" ->
              /\ errors' = AddError(errors, Diag(cidx, "error"))
              /\ cidx' = cidx + 1
              /\ UNCHANGED <<cpc, first_present, chosen>>
         [] Count(Sel(cidx)) = "some" /\ require_visible /\ IsVisible(Sel(cidx)) = "yes" ->
              /\ chosen' = [status |-> "return", index |-> cidx, how |-> "visible",
                            message |-> <<>>]
              /\ cpc' = "done"
              /\ UNCHANGED <<cidx, errors, first_present>>
         [] Count(Sel(cidx)) = "some" /\ require_visible /\ IsVisible(Sel(cidx)) = "error" ->
              /\ errors' = AddError(errors, Diag(cidx, "error"))
              /\ cidx' = cidx + 1
              /\ UNCHANGED <<cpc, first_present, chosen>>
         [] OTHER ->
              /\ first_present' = Remember(first_present, cidx)
              /\ cidx' = cidx + 1
              /\ UNCHANGED <<cpc, errors, chosen>>
    /\ UNCHANGED <<selectors, require_visible, waited>>
    /\ UNCHANGED <<engineVars, retryVars, auxVars>>

\* after the loop: wait once on first_present, else raise SelectorNotFound
ChooseAfterLoop ==
    /\ cpc = "for"
    /\ cidx >= Len(selectors)
    /\ IF first_present # {}
       THEN \E i \in first_present :
               /\ waited' = Append(waited, i)
               /\ chosen' = IF WaitFor(Sel(i)) = "visible"
                            THEN [status |-> "return", index |-> i, how |-> "state-wait",
                                  message |-> <<>>]
                            ELSE [status |-> "SelectorNotFound", index |-> 0, how |-> None,
                                  message |-> Message(errors)]
       ELSE /\ chosen' = [status |-> "SelectorNotFound", index |-> 0, how |-> None,
                          message |-> Message(errors)]
            /\ UNCHANGED waited
    /\ cpc' = "done"
    /\ UNCHANGED <<selectors, require_visible, cidx, errors, first_present>>
    /\ UNCHANGED <<engineVars, retryVars, auxVars>>

NextChoose ==
    \/ CallChoose
    \/ ChooseCandidate
    \/ ChooseAfterLoop

SpecChoose == InitChoose /\ [][NextChoose]_vars

\* ------------------------------------------------------------------
\* load_workflows_file (src/core/workflow_loader.py)
\* ------------------------------------------------------------------
Tasks == {"do_one", "do_two"}

\* What yaml.safe_load_all yields for one document of the file:
\*   valid    a mapping in the current schema that Workflow accepts
\*   invalid  a mapping that Workflow.model_validate rejects
\*   legacy   a mapping in the legacy schema (no site/task of its own)
\*   null     an empty document (None)
\*   scalar   a document that is not a mapping
Docs ==
    { [kind |-> k, task |-> t] : k \in {"valid", "invalid", "legacy"}, t \in Tasks }
        \cup { [kind |-> "null", task |-> None], [kind |-> "scalar", task |-> None] }

DocLists == UNION { [1..n -> Docs] : n \in 0..MaxDocs }

Files == [exists : BOOLEAN, parses : BOOLEAN, docs : DocLists]

\* "norm = locals().get("_normalize_legacy")(data, wf_path)" with the except
\* clause "norm = data": the helper is local to load_workflow, so the lookup
\* gives None, the call raises and the document is taken as it is
NormalizeInLoader(data) == data

\* does Workflow.model_validate accept the mapping (site, task and steps are
\* required fields)
Validates(data) == data.kind = "valid"

\* the Workflow object model_validate builds
ModelValidate(data) == [site |-> "example.com", task |-> data.task]

\* _normalize_legacy(data, p) of load_workflow: a mapping that has site, task
\* and a steps list is returned as it is; any other mapping is rebuilt in the
\* current schema, site and task taken from the path where it has none
_normalize_legacy(data) ==
    IF data.kind = "legacy" THEN [kind |-> "valid", task |-> data.task] ELSE data

SingleError(what) == [status |-> "error", workflow |-> None, what |-> what]

\* load_workflow(path): yaml.safe_load (one document only), the mapping test,
\* _normalize_legacy, environment substitution, Workflow.model_validate
LoadWorkflow(f) ==
    IF ~ f.exists THEN SingleError("FileNotFoundError")
    ELSE IF ~ f.parses \/ Len(f.docs) > 1 THEN SingleError("YAML parse error")
    ELSE IF Len(f.docs) = 0 \/ f.docs[1].kind \in {"null", "scalar"}
         THEN SingleError("must define a mapping")
    ELSE IF Validates(_normalize_legacy(f.docs[1]))
         THEN [status |-> "ok", workflow |-> ModelValidate(_normalize_legacy(f.docs[1])),
               what |-> None]
    ELSE SingleError("Invalid workflow")

LoadError(i, what) == [status |-> "error", workflows |-> <<>>, position |-> i, what |-> what]

\* mutant: documents are collected in front
Collect_Front(o, w) == <<w>> \o o

\* out.append(Workflow.model_validate(norm))
Collect(o, w) == Append(o, w)

LoadFrame == UNCHANGED <<engineVars, retryVars, chooseVars, shotVars, runsVars, cliVars, moreVars>>

InitLoad ==
    /\ EngineIdle
    /\ RetryIdle
    /\ ChooseIdle
    /\ AuxIdle
    /\ CONTINUE_ON_ERROR = FALSE
    /\ interactive_auth = TRUE
    /\ storage_exists = FALSE

\* load_workflows_file(path) up to the for statement
CallLoadWorkflowsFile ==
    /\ lpc = "idle"
    /\ \E f \in Files :
          /\ file' = f
          /\ IF ~ f.exists
             THEN /\ loaded' = LoadError(0, "FileNotFoundError")
                  /\ lpc' = "done"
                  /\ UNCHANGED lidx
             ELSE IF ~ f.parses
                  THEN /\ loaded' = LoadError(0, "YAML parse error")
                       /\ lpc' = "done"
                       /\ UNCHANGED lidx
                  ELSE /\ lpc' = "for"
                       /\ lidx' = 1
                       /\ UNCHANGED loaded
    /\ UNCHANGED <<out, single>>
    /\ LoadFrame

\* one iteration of "for idx, data in enumerate(docs, start=1)"
LoadDocument ==
    /\ lpc = "for"
    /\ lidx <= Len(file.docs)
    /\ LET data == file.docs[lidx]
       IN  CASE data.kind = "null" ->
                  /\ lidx' = lidx + 1
                  /\ UNCHANGED <<lpc, out, loaded>>
             [] data.kind = "scalar" ->
                  /\ loaded' = LoadError(lidx, "must be a mapping")
                  /\ lpc' = "done"
                  /\ UNCHANGED <<lidx, out>>
             [] data.kind \notin {"null", "scalar"} /\ Validates(NormalizeInLoader(data)) ->
                  /\ out' = Collect(out, ModelValidate(NormalizeInLoader(data)))
                  /\ lidx' = lidx + 1
                  /\ UNCHANGED <<lpc, loaded>>
             [] OTHER ->
                  /\ loaded' = LoadError(lidx, "Invalid workflow")
                  /\ lpc' = "done"
                  /\ UNCHANGED <<lidx, out>>
    /\ UNCHANGED <<file, single>>
    /\ LoadFrame

\* after the loop: "if not out: raise ValueError(No valid workflow documents)"
LoadReturn ==
    /\ lpc = "for"
    /\ lidx > Len(file.docs)
    /\ loaded' = IF out = <<>>
                 THEN LoadError(0, "No valid workflow documents")
                 ELSE [status |-> "ok", workflows |-> out, position |-> 0, what |-> None]
    /\ lpc' = "done"
    /\ UNCHANGED <<file, lidx, out, single>>
    /\ LoadFrame

\* load_workflow(path) on the same file (the directory filter of cmd_run
\* calls it on the files that _run_one gives to load_workflows_file)
CallLoadWorkflow ==
    /\ lpc = "done"
    /\ single' = LoadWorkflow(file)
    /\ lpc' = "both"
    /\ UNCHANGED <<file, lidx, out, loaded>>
    /\ LoadFrame

NextLoad ==
    \/ CallLoadWorkflowsFile
    \/ LoadDocument
    \/ LoadReturn
    \/ CallLoadWorkflow

SpecLoad == InitLoad /\ [][NextLoad]_vars

\* ------------------------------------------------------------------
\* execute_step and _do_screenshot (src/core/actions.py) with
\* ScreenshotManager (src/capture/screenshot.py) and MetadataBuilder.record
\* (src/capture/metadata.py), called by the step loop of one run
\* ------------------------------------------------------------------
ShotActions == {"screenshot", "click"}

ShotStepLists ==
    UNION { [1..n -> [action : ShotActions, optional : BOOLEAN]] : n \in 0..MaxShots }

\* execute_step: "tries = max(1, settings.MAX_RETRIES)", passed through
\* _with_retry to retry; the number of times retry can invoke the operation
\* is the number of delays its generator yields plus the last attempt
Invocations(m) == BackoffCount(Attempts(Max(1, m)) - 1) + 1

\* How the rich path of one invocation of _do_screenshot ends:
\*   capture  _resolve_locator or the screenshot call raises, no image written
\*   title    page.title() raises after the image was written
\*   sidecar  write_sidecar raises, no sidecar written
\*   append   append_jsonl raises after the sidecar was written
\*   ok       record() returns
RichOutcomes == {"capture", "title", "sidecar", "append", "ok"}

\* CaptureMeta as one line of captures.jsonl
CaptureLine(i, step) == [step_index |-> i, step_action |-> step.action]

\* mutant: the line is written on every invocation that got to the append
AppendJsonl_Twice(lines, l) == lines \o <<l, l>>

\* MetadataBuilder.append_jsonl: open("a") and write one line
AppendJsonl(lines, l) == Append(lines, l)

ShotFrame == UNCHANGED <<engineVars, retryVars, chooseVars, loadVars, runsVars, cliVars, moreVars>>

InitShot ==
    /\ EngineIdle
    /\ RetryIdle
    /\ ChooseIdle
    /\ AuxIdle
    /\ CONTINUE_ON_ERROR \in BOOLEAN
    /\ interactive_auth = FALSE
    /\ storage_exists = FALSE

\* the engine enters its step loop with an empty run directory
EnterStepLoop ==
    /\ spc = "idle"
    /\ \E sl \in ShotStepLists : shot_steps' = sl
    /\ \E m \in 0..MaxRetries : MAX_RETRIES' = m
    /\ sidx' = 1
    /\ spc' = "loop"
    /\ UNCHANGED <<sattempt, images, sidecars, captures_jsonl, completed>>
    /\ ShotFrame

\* "for idx, step in enumerate(wf.steps, start=1)": setattr(step, "_index", idx)
\* and the call of execute_step
ShotForStep ==
    /\ spc = "loop"
    /\ IF sidx <= Len(shot_steps)
       THEN /\ spc' = "exec"
            /\ sattempt' = 1
       ELSE /\ spc' = "done"
            /\ UNCHANGED sattempt
    /\ UNCHANGED <<shot_steps, MAX_RETRIES, sidx, images, sidecars, captures_jsonl,
                   completed>>
    /\ ShotFrame

\* one invocation of the operation raised: retry invokes it again while it has
\* invocations left, else execute_step raises and the except clause of the
\* step loop continues with the next step or re-raises
InvocationRaised ==
    IF sattempt < Invocations(MAX_RETRIES)
    THEN /\ sattempt' = sattempt + 1
         /\ spc' = "exec"
         /\ UNCHANGED <<sidx, completed>>
    ELSE IF Tolerated(shot_steps[sidx])
         THEN /\ sidx' = sidx + 1
              /\ spc' = "loop"
              /\ completed' = Append(completed, [i |-> sidx, how |-> "skipped"])
              /\ UNCHANGED sattempt
         ELSE /\ spc' = "aborted"
              /\ completed' = Append(completed, [i |-> sidx, how |-> "failed"])
              /\ UNCHANGED <<sidx, sattempt>>

\* execute_step returned: the rest of the iteration
InvocationReturned(how) ==
    /\ completed' = Append(completed, [i |-> sidx, how |-> how])
    /\ sidx' = sidx + 1
    /\ spc' = "loop"
    /\ UNCHANGED sattempt

\* one invocation of the operation of a step that is not a screenshot
ExecuteOther ==
    /\ spc = "exec"
    /\ shot_steps[sidx].action # "screenshot"
    /\ \/ InvocationReturned("other")
       \/ InvocationRaised
    /\ UNCHANGED <<shot_steps, MAX_RETRIES, images, sidecars, captures_jsonl>>
    /\ ShotFrame

\* the try block of _do_screenshot: shots.page / shots.element, then
\* builder.record (write_sidecar, append_jsonl), then "return cap.path"
RichCapture ==
    /\ spc = "exec"
    /\ shot_steps[sidx].action = "screenshot"
    /\ \E o \in RichOutcomes :
          /\ images' = IF o = "capture" THEN images ELSE images \cup {sidx}
          /\ sidecars' = IF o \in {"append", "ok"} THEN sidecars \cup {sidx} ELSE sidecars
          /\ IF o = "ok"
             THEN /\ captures_jsonl' = AppendJsonl(captures_jsonl,
                                                    CaptureLine(sidx, shot_steps[sidx]))
                  /\ InvocationReturned("rich")
             ELSE /\ spc' = "fallback"
                  /\ UNCHANGED <<captures_jsonl, sidx, sattempt, completed>>
    /\ UNCHANGED <<shot_steps, MAX_RETRIES>>
    /\ ShotFrame

\* the except block of _do_screenshot: a bare page.screenshot / loc.screenshot
\* to _screenshot_path(...), the path the rich path writes to as well
FallbackCapture ==
    /\ spc = "fallback"
    /\ \/ /\ images' = images \cup {sidx}
          /\ InvocationReturned("fallback")
       \/ /\ InvocationRaised
          /\ UNCHANGED images
    /\ UNCHANGED <<shot_steps, MAX_RETRIES, sidecars, captures_jsonl>>
    /\ ShotFrame

NextShot ==
    \/ EnterStepLoop
    \/ ShotForStep
    \/ ExecuteOther
    \/ RichCapture
    \/ FallbackCapture

SpecShot == InitShot /\ [][NextShot]_vars

\* ------------------------------------------------------------------
\* Several runs of Engine.run_workflow in one process (the worker threads of
\* cmd_run, or consecutive calls), with the per-run log handler of
\* src/utils/logger.py
\* ------------------------------------------------------------------
\* resolution of the model's clock: ticks per second of wall-clock time
TicksPerSecond == 2

\* _ts(): datetime.now(timezone.utc).strftime("%Y-%m-%d_%H-%M-%S"), the time
\* of the call cut to whole seconds
_ts(t) == t \div TicksPerSecond

\* base = self.settings.OUTPUT_DIR / site / task / _ts()
RunDir(task, t) == [task |-> task, ts |-> _ts(t)]

\* logging: a record emitted by any logger propagates to the root logger, which
\* hands it to every handler attached to it
Receivers(hs) == hs

RunsFrame == UNCHANGED <<engineVars, retryVars, chooseVars, loadVars, shotVars, cliVars, moreVars>>

InitRuns ==
    /\ EngineIdle
    /\ RetryIdle
    /\ ChooseIdle
    /\ AuxIdle
    /\ CONTINUE_ON_ERROR = FALSE
    /\ interactive_auth = FALSE
    /\ storage_exists = FALSE

\* time passes
Tick ==
    /\ now < MaxClock * TicksPerSecond
    /\ now' = now + 1
    /\ UNCHANGED <<run_pc, run_task, run_dirs, handlers, run_log, emitted>>
    /\ RunsFrame

\* run_workflow(wf): ctx = self._prepare_run_dirs(wf) (mkdir with
\* exist_ok=True) and self._write_manifest(wf, ctx)
RunPrepare(r) ==
    /\ run_pc[r] = "idle"
    /\ \E t \in Tasks :
          /\ run_task' = [run_task EXCEPT ![r] = t]
          /\ run_dirs' = [run_dirs EXCEPT ![r] = RunDir(t, now)]
    /\ run_pc' = [run_pc EXCEPT ![r] = "prepared"]
    /\ UNCHANGED <<now, handlers, run_log, emitted>>
    /\ RunsFrame

\* per_run_handler = attach_file_logger(ctx.run_dir / "run.log"):
\* root.addHandler(fh)
RunAttach(r) ==
    /\ run_pc[r] = "prepared"
    /\ handlers' = handlers \cup {r}
    /\ run_pc' = [run_pc EXCEPT ![r] = "running"]
    /\ UNCHANGED <<now, run_task, run_dirs, run_log, emitted>>
    /\ RunsFrame

\* the run emits one log record (log.info, step_log.info, log.exception ...)
RunEmit(r) ==
    /\ run_pc[r] = "running"
    /\ emitted[r] < MaxLogs
    /\ emitted' = [emitted EXCEPT ![r] = @ + 1]
    /\ run_log' = [h \in RunIds |->
                      IF h \in Receivers(handlers)
                      THEN Append(run_log[h], [by |-> r, n |-> emitted[r] + 1])
                      ELSE run_log[h]]
    /\ UNCHANGED <<now, run_pc, run_task, run_dirs, handlers>>
    /\ RunsFrame

\* finally: detach_file_logger(per_run_handler): root.removeHandler(handler);
\* run_workflow returns or raises
RunFinish(r) ==
    /\ run_pc[r] = "running"
    /\ handlers' = handlers \ {r}
    /\ run_pc' = [run_pc EXCEPT ![r] = "done"]
    /\ UNCHANGED <<now, run_task, run_dirs, run_log, emitted>>
    /\ RunsFrame

NextRuns ==
    \/ Tick
    \/ \E r \in RunIds : RunPrepare(r)
    \/ \E r \in RunIds : RunAttach(r)
    \/ \E r \in RunIds : RunEmit(r)
    \/ \E r \in RunIds : RunFinish(r)

SpecRuns == InitRuns /\ [][NextRuns]_vars

\* ------------------------------------------------------------------
\* The run command: cmd_run and its local function _run_one (src/cli.py)
\* ------------------------------------------------------------------
\* number of documents a workflow file can hold
DocCounts == {1, 2}

\* a workflow file: its suffix (.yaml/.yml or not), the number of documents in
\* it and whether all of them validate
CliFiles == [yaml : BOOLEAN, ndocs : DocCounts, valid : BOOLEAN]

CliFileLists == UNION { [1..n -> CliFiles] : n \in 0..MaxTargets }

\* load_workflow(path): yaml.safe_load accepts a single document only
LoadsSingle(f) == f.valid /\ f.ndocs = 1

\* load_workflows_file(path)
LoadsMulti(f) == f.valid

\* what _run_one does with the path: load_workflows_file for .yaml/.yml,
\* load_workflow for any other suffix
Loads(f) == IF f.yaml THEN LoadsMulti(f) ELSE LoadsSingle(f)

\* the number of Workflow objects _run_one runs for a file that loads
NDocs(f) == IF f.yaml THEN f.ndocs ELSE 1

\* how a call eng.run_workflow(wf) ends: a result with ok true, a result with
\* ok false, or an exception (a failure before the browser is launched)
RunOutcomes == {"ok", "failed", "raised"}

\* "Collect workflows": targets are taken as they are; files found under
\* --dir are kept when load_workflow(fp) succeeds ("skip invalids")
Collected(mode, files) ==
    IF mode = "targets" THEN files ELSE SelectSeq(files, LoadsSingle)

\* r.get("ok", True) over the results of the documents run
AllOk(rs) == \A k \in DOMAIN rs : rs[k].outcome = "ok"

\* the dict _run_one returns from its except clause
ErrorResult(w) == [w |-> w, ok |-> FALSE, kind |-> "error"]

\* "if len(results) == 1: return results[0]" else
\* {"ok": all(r.get("ok", True) for r in results), "results": ..., "workflow": ...}
RunOneResult(w, rs) ==
    IF Len(rs) = 1
    THEN [w |-> w, ok |-> (rs[1].outcome = "ok"), kind |-> "single"]
    ELSE [w |-> w, ok |-> AllOk(rs), kind |-> "combined"]

\* fail_count = len(results) - sum(1 for r in results if r.get("ok", True))
FailCount(rs) == Cardinality({ k \in DOMAIN rs : ~ rs[k].ok })

\* "for fp, res in zip(workflows, results)": the k-th line names the k-th
\* file and reports the k-th result ("of": the file that result came from)
OutcomeLines(wfs, rs) ==
    [k \in 1..Min(Len(wfs), Len(rs)) |->
        [fp |-> k, status |-> IF rs[k].ok THEN "OK" ELSE "ERR", of |-> rs[k].w]]

\* sequential: "for fp in workflows: results.append(_run_one(fp))";
\* with run_parallel and more than one file the calls run on worker threads
MayRun(w) ==
    \/ parallel /\ Len(workflows) > 1
    \/ \A v \in 1..(w - 1) : wpc[v] = "done"

CliFrame == UNCHANGED <<engineVars, retryVars, chooseVars, loadVars, shotVars, runsVars, moreVars>>

InitCli ==
    /\ EngineIdle
    /\ RetryIdle
    /\ ChooseIdle
    /\ AuxIdle
    /\ CONTINUE_ON_ERROR = FALSE
    /\ interactive_auth = TRUE
    /\ storage_exists = FALSE

\* cmd_run up to the execution: collect the workflows; sys.exit(2) without
\* targets and --dir, sys.exit(1) when nothing was collected
CallCmdRun ==
    /\ cli_pc = "idle"
    /\ \E mode \in {"targets", "dir"}, files \in CliFileLists, par \in BOOLEAN :
          /\ mode = "dir" => \A k \in DOMAIN files : files[k].yaml
          /\ cli_mode' = mode
          /\ cli_files' = files
          /\ parallel' = par
          /\ workflows' = Collected(mode, files)
          /\ wpc' = [w \in DOMAIN Collected(mode, files) |-> "queued"]
          /\ wresults' = [w \in DOMAIN Collected(mode, files) |-> <<>>]
          /\ wstarted' = [w \in DOMAIN Collected(mode, files) |-> 0]
          /\ IF mode = "targets" /\ files = <<>>
             THEN /\ exit_code' = 2
                  /\ cli_pc' = "exited"
             ELSE IF Collected(mode, files) = <<>>
                  THEN /\ exit_code' = 1
                       /\ cli_pc' = "exited"
                  ELSE /\ cli_pc' = "running"
                       /\ UNCHANGED exit_code
    /\ UNCHANGED <<results, printed>>
    /\ CliFrame

\* _run_one(path): load the file; an exception of the loader is returned as
\* {"ok": False, "error": ..., "workflow": ...}
RunOneLoad(w) ==
    /\ cli_pc = "running"
    /\ wpc[w] = "queued"
    /\ MayRun(w)
    /\ IF Loads(workflows[w])
       THEN /\ wpc' = [wpc EXCEPT ![w] = "running"]
            /\ UNCHANGED results
       ELSE /\ wpc' = [wpc EXCEPT ![w] = "done"]
            /\ results' = Append(results, ErrorResult(w))
    /\ UNCHANGED <<cli_mode, cli_files, parallel, cli_pc, workflows, wresults, wstarted,
                   printed, exit_code>>
    /\ CliFrame

\* one iteration of "for wf in load_workflows_file(path)":
\* eng = Engine(...); results.append(eng.run_workflow(wf)); an exception is
\* caught by the except clause of _run_one, which returns at once
RunOneDoc(w) ==
    /\ cli_pc = "running"
    /\ wpc[w] = "running"
    /\ Len(wresults[w]) < NDocs(workflows[w])
    /\ wstarted' = [wstarted EXCEPT ![w] = @ + 1]
    /\ \E o \in RunOutcomes :
          IF o = "raised"
          THEN /\ wpc' = [wpc EXCEPT ![w] = "done"]
               /\ results' = Append(results, ErrorResult(w))
               /\ UNCHANGED wresults
          ELSE /\ wresults' = [wresults EXCEPT ![w] =
                                  Append(@, [outcome |-> o, engine |-> Len(@) + 1])]
               /\ UNCHANGED <<wpc, results>>
    /\ UNCHANGED <<cli_mode, cli_files, parallel, cli_pc, workflows, printed, exit_code>>
    /\ CliFrame

\* after the loop: _run_one returns the single result or the combined one
RunOneReturn(w) ==
    /\ cli_pc = "running"
    /\ wpc[w] = "running"
    /\ Len(wresults[w]) = NDocs(workflows[w])
    /\ wpc' = [wpc EXCEPT ![w] = "done"]
    /\ results' = Append(results, RunOneResult(w, wresults[w]))
    /\ UNCHANGED <<cli_mode, cli_files, parallel, cli_pc, workflows, wresults, wstarted,
                   printed, exit_code>>
    /\ CliFrame

\* the outcome lines, the counts and sys.exit(0 if fail_count == 0 else 1)
CmdExit ==
    /\ cli_pc = "running"
    /\ \A w \in DOMAIN workflows : wpc[w] = "done"
    /\ printed' = OutcomeLines(workflows, results)
    /\ exit_code' = IF FailCount(results) = 0 THEN 0 ELSE 1
    /\ cli_pc' = "exited"
    /\ UNCHANGED <<cli_mode, cli_files, parallel, workflows, wpc, wresults, wstarted,
                   results>>
    /\ CliFrame

NextCli ==
    \/ CallCmdRun
    \/ \E w \in DOMAIN workflows : RunOneLoad(w)
    \/ \E w \in DOMAIN workflows : RunOneDoc(w)
    \/ \E w \in DOMAIN workflows : RunOneReturn(w)
    \/ CmdExit

SpecCli == InitCli /\ [][NextCli]_vars

\* ------------------------------------------------------------------
\* execute_step on an assertion step or a selector step, and the error_type
\* of the result when the step fails the run (src/core/actions.py,
\* src/core/engine.py)
\* ------------------------------------------------------------------
AssertActions == {"assert_visible", "assert_text", "assert_url_contains"}

\* steps that act on a selector and are not assertions
SelectorActions == {"click", "wait_for_selector"}

KindSteps == [action : AssertActions \cup SelectorActions, optional : BOOLEAN]

\* what the page shows while one invocation of the operation runs:
\*   in_state  the selector's element reaches the awaited state in timeout_ms
\*   text_ok   the element's text contains / matches step.expect
\*   url_ok    page.url contains step.text
PageFacts == [in_state : BOOLEAN, text_ok : BOOLEAN, url_ok : BOOLEAN]

\* the class of the exception one invocation of the operation raises, None
\* when it returns: loc.wait_for / loc.click raise Playwright's TimeoutError,
\* _do_assert_text and _do_assert_url_contains raise AssertionError
OpRaises(action, p) ==
    CASE action = "assert_visible" ->
            IF p.in_state THEN None ELSE "TimeoutError"
      [] action = "assert_text" ->
            IF ~p.in_state THEN "TimeoutError"
            ELSE IF p.text_ok THEN None ELSE "AssertionError"
      [] action = "assert_url_contains" ->
            IF p.url_ok THEN None ELSE "AssertionError"
      [] action = "click" ->
            IF p.in_state THEN None ELSE "TimeoutError"
      [] action = "wait_for_selector" ->
            IF p.in_state THEN None ELSE "TimeoutError"

\* "error_type": e.__class__.__name__
ErrorType(e) == e

KindFrame == UNCHANGED <<engineVars, retryVars, chooseVars, loadVars, shotVars,
                         runsVars, cliVars, modalVars, animVars, domVars>>

InitKinds ==
    /\ EngineIdle
    /\ RetryIdle
    /\ ChooseIdle
    /\ AuxIdle
    /\ CONTINUE_ON_ERROR \in BOOLEAN
    /\ interactive_auth = FALSE
    /\ storage_exists = FALSE

\* the step loop calls execute_step(page, step, run_ctx):
\* "tries = max(1, settings.MAX_RETRIES)"
CallExecuteStep ==
    /\ kpc = "idle"
    /\ \E st \in KindSteps : kstep' = st
    /\ \E m \in 0..MaxRetries : ktries' = Max(1, m)
    /\ kattempt' = 1
    /\ kpc' = "exec"
    /\ UNCHANGED <<kpage, kexc, error_type>>
    /\ KindFrame

\* one invocation of the operation by retry: it returns, or raises and retry
\* invokes it again while it has invocations left, else re-raises
InvokeOperation ==
    /\ kpc = "exec"
    /\ \E p \in PageFacts :
          /\ kpage' = p
          /\ kexc' = OpRaises(kstep.action, p)
          /\ IF OpRaises(kstep.action, p) = None
             THEN /\ kpc' = "returned"
                  /\ UNCHANGED kattempt
             ELSE IF kattempt < BackoffCount(Attempts(ktries) - 1) + 1
                  THEN /\ kattempt' = kattempt + 1
                       /\ kpc' = "exec"
                  ELSE /\ kpc' = "raised"
                       /\ UNCHANGED kattempt
    /\ UNCHANGED <<kstep, ktries, error_type>>
    /\ KindFrame

\* the except clause of the step: the failure is tolerated, or it is re-raised
\* to the handler of the run, which builds the result with its error_type
StepFailed ==
    /\ kpc = "raised"
    /\ IF Tolerated(kstep)
       THEN /\ kpc' = "skipped"
            /\ UNCHANGED error_type
       ELSE /\ kpc' = "failed"
            /\ error_type' = ErrorType(kexc)
    /\ UNCHANGED <<kstep, ktries, kattempt, kpage, kexc>>
    /\ KindFrame

NextKinds ==
    \/ CallExecuteStep
    \/ InvokeOperation
    \/ StepFailed

SpecKinds == InitKinds /\ [][NextKinds]_vars

\* ------------------------------------------------------------------
\* ModalDetector.detect_active and _zindex_and_bbox
\* (src/detection/modal_detector.py)
\* ------------------------------------------------------------------
\* what getComputedStyle(el).zIndex holds: "auto" does not parse
ZIndexes == {"auto", "5", "10"}

\* a candidate element as the page reports it:
\*   visible    loc.is_visible()
\*   zIndex     the computed z-index
\*   center_in  the center of getBoundingClientRect() is inside the viewport
\*   probe      the evaluate call that tests center_in returns ("ok") or raises
\*   sized      loc.bounding_box() has width > 0 and height > 0
ModalCandidates ==
    [visible : BOOLEAN, zIndex : ZIndexes, center_in : BOOLEAN,
     probe : {"ok", "raises"}, sized : BOOLEAN]

CandidateSeqs == UNION { [1..n -> ModalCandidates] : n \in 0..MaxModals }

\* "const zi = parseInt(cs.zIndex, 10); return Number.isFinite(zi) ? zi : 0"
ZOf(c) ==
    CASE c.zIndex = "5" -> 5
      [] c.zIndex = "10" -> 10
      [] OTHER -> 0

\* in_vp of _zindex_and_bbox: the result of the probe, and
\* "except Exception: in_vp = (w > 0 and h > 0)" when the probe raises
InViewport(c) == IF c.probe = "ok" THEN c.center_in ELSE c.sized

\* "info.z_index > best.z_index"
Better(c, b) == ZOf(c) > ZOf(b)

ModalFrame == UNCHANGED <<engineVars, retryVars, chooseVars, loadVars, shotVars,
                          runsVars, cliVars, kindVars, animVars, domVars>>

InitModal ==
    /\ EngineIdle
    /\ RetryIdle
    /\ ChooseIdle
    /\ AuxIdle
    /\ CONTINUE_ON_ERROR = FALSE
    /\ interactive_auth = FALSE
    /\ storage_exists = FALSE

\* detect_active(page): candidates = page.locator(CANDIDATE_CSS);
\* "if count == 0: return None"; best = None
CallDetectActive ==
    /\ dpc = "idle"
    /\ \E cs \in CandidateSeqs :
          /\ candidates' = cs
          /\ IF Len(cs) = 0
             THEN /\ dpc' = "done"
                  /\ UNCHANGED di
             ELSE /\ dpc' = "loop"
                  /\ di' = 1
    /\ UNCHANGED <<best, detected>>
    /\ ModalFrame

\* one iteration of "for i in range(count)"
DetectCandidate ==
    /\ dpc = "loop"
    /\ di <= Len(candidates)
    /\ best' = IF /\ candidates[di].visible
                  /\ InViewport(candidates[di])
                  /\ (best = 0 \/ Better(candidates[di], candidates[best]))
               THEN di
               ELSE best
    /\ di' = di + 1
    /\ UNCHANGED <<candidates, dpc, detected>>
    /\ ModalFrame

\* "return best"
DetectReturn ==
    /\ dpc = "loop"
    /\ di > Len(candidates)
    /\ detected' = best
    /\ dpc' = "done"
    /\ UNCHANGED <<candidates, di, best>>
    /\ ModalFrame

NextModal ==
    \/ CallDetectActive
    \/ DetectCandidate
    \/ DetectReturn

SpecModal == InitModal /\ [][NextModal]_vars

\* ------------------------------------------------------------------
\* AnimationDetector.wait_until_idle (src/detection/animation_detector.py)
\* and wait_for_animations_to_finish (src/detection/stability.py): the same
\* loop around the same page script. Times are in milliseconds.
\* ------------------------------------------------------------------
\* "for _ in range(10)"
MaxPolls == 10

\* "return Math.min(2000, remaining)"
SleepCapMs == 2000

AnimFns == {"wait_until_idle", "wait_for_animations_to_finish"}

\* the computed styles the page script reads: transition duration and delay,
\* animation duration, delay and iteration count (a delay may be negative)
PageStyles ==
    [tDur : {0, 300, 5000}, tDelay : {0, 0 - 400}, aDur : {0, 1000}, aDelay : {0},
     aIter : {"infinite", "0", "3"}]

MinIdles == {0, 1, 200}

\* time that can pass between two readings of performance.now() in the script
Drifts == {0, 1}

\* "v.trim()==='infinite' ? 1 : parseFloat(v)||0", then "aIter[i] || 1"
Iters(v) ==
    CASE v = "3" -> 3
      [] OTHER -> 1

\* "end = now() + dur + delay; if (end > now()) endTimes.push(end)" for the
\* transition and for the animation, then "Math.max(0, ...endTimes) - now()":
\* every end is counted from the reading of now() at this poll
LongestEnd(p, d) ==
    Max(0, Max(p.tDur + p.tDelay, p.aDur * Iters(p.aIter) + p.aDelay) - d)

\* mutant: the suggestion is not capped
SuggestedWait_Uncapped(p, minIdle, d) == Max(0, LongestEnd(p, d)) + minIdle

\* "remaining = Math.max(0, Math.max(0, ...endTimes) - now()) + minIdle;
\*  return Math.min(2000, remaining)"
SuggestedWait(p, minIdle, d) == Min(SleepCapMs, Max(0, LongestEnd(p, d)) + minIdle)

\* "if not ms or ms <= min_idle_ms // 2"
IdleEnough(m, minIdle) == m = 0 \/ m <= minIdle \div 2

AnimFrame == UNCHANGED <<engineVars, retryVars, chooseVars, loadVars, shotVars,
                         runsVars, cliVars, kindVars, modalVars, domVars>>

InitAnim ==
    /\ EngineIdle
    /\ RetryIdle
    /\ ChooseIdle
    /\ AuxIdle
    /\ CONTINUE_ON_ERROR = FALSE
    /\ interactive_auth = FALSE
    /\ storage_exists = FALSE

\* the call of wait_until_idle(page, root_selector, min_idle_ms) or of
\* wait_for_animations_to_finish(page, selector, min_idle_ms)
CallAnimWait ==
    /\ apc = "idle"
    /\ \E f \in AnimFns : afn' = f
    /\ \E p \in PageStyles : apage' = p
    /\ \E m \in MinIdles : min_idle_ms' = m
    /\ apc' = "for"
    /\ UNCHANGED <<polls, wait_ms, slept, longest>>
    /\ AnimFrame

\* "for _ in range(10)": the next iteration, or the end of the loop
AnimFor ==
    /\ apc = "for"
    /\ IF polls < MaxPolls
       THEN /\ polls' = polls + 1
            /\ apc' = "poll"
       ELSE /\ apc' = "done"
            /\ UNCHANGED polls
    /\ UNCHANGED <<afn, apage, min_idle_ms, wait_ms, slept, longest>>
    /\ AnimFrame

\* "ms = page.evaluate(script, ...)" and the test that follows; the evaluate
\* call can raise, which ends the function
AnimPoll ==
    /\ apc = "poll"
    /\ \/ \E d \in Drifts :
             /\ wait_ms' = SuggestedWait(apage, min_idle_ms, d)
             /\ apc' = IF IdleEnough(SuggestedWait(apage, min_idle_ms, d), min_idle_ms)
                       THEN "done"
                       ELSE "sleep"
       \/ /\ apc' = "raised"
          /\ UNCHANGED wait_ms
    /\ UNCHANGED <<afn, apage, min_idle_ms, polls, slept, longest>>
    /\ AnimFrame

\* "page.wait_for_timeout(int(ms))"
AnimSleep ==
    /\ apc = "sleep"
    /\ slept' = slept + wait_ms
    /\ longest' = Max(longest, wait_ms)
    /\ apc' = "for"
    /\ UNCHANGED <<afn, apage, min_idle_ms, polls, wait_ms>>
    /\ AnimFrame

NextAnim ==
    \/ CallAnimWait
    \/ AnimFor
    \/ AnimPoll
    \/ AnimSleep

SpecAnim == InitAnim /\ [][NextAnim]_vars

\* the thread that runs the function keeps running it
SpecAnimLive == SpecAnim /\ WF_vars(NextAnim)

\* ------------------------------------------------------------------
\* wait_for_dom_stable (src/detection/stability.py) with now_ms and sleep_ms
\* (src/utils/timing.py). Times are in milliseconds.
\* ------------------------------------------------------------------
\* Date.now() when the function is called
Epoch == 1000

\* Date.now() counts from the epoch; the reference point of time.monotonic_ns()
\* is undefined (the time since boot on Linux), so the two clocks differ by an
\* amount that is fixed for the process
MonoOffsets == {0, 900}

SettleWindows == {0, 40, 80}

MaxWaits == {0, 50, 100}

\* how long before the call the page last mutated (0: the counter is installed
\* by this call, "last: Date.now()")
QuietBefore == {0, 100}

\* now_ms(): "time.monotonic_ns() // 1_000_000"
now_ms == wall - mono_offset

\* "min(100, max(10, settle_ms // 4))"
PollInterval(settle) == Min(100, Max(10, settle \div 4))

\* "idle = max(0, int(now_ms() - int(last)))"
Idle(last) == Max(0, now_ms - last)

DomFrame == UNCHANGED <<engineVars, retryVars, chooseVars, loadVars, shotVars,
                        runsVars, cliVars, kindVars, modalVars, animVars>>

InitDom ==
    /\ EngineIdle
    /\ RetryIdle
    /\ ChooseIdle
    /\ AuxIdle
    /\ CONTINUE_ON_ERROR = FALSE
    /\ interactive_auth = FALSE
    /\ storage_exists = FALSE

\* wait_for_dom_stable(page, settle_ms, max_wait_ms): the counter is installed
\* unless the page has it; "deadline = now_ms() + max_wait"
CallWaitForDomStable ==
    /\ dom_pc = "idle"
    /\ wall' = Epoch
    /\ called_at' = Epoch
    /\ \E o \in MonoOffsets :
          /\ mono_offset' = o
          /\ \E w \in MaxWaits :
                /\ max_wait' = w
                /\ deadline' = (Epoch - o) + w
    /\ \E st \in SettleWindows : settle_ms' = st
    /\ \E q \in QuietBefore : dom_last' = Epoch - q
    /\ dom_pc' = "poll"
    /\ UNCHANGED <<age_at_poll, dom_how>>
    /\ DomFrame

\* the MutationObserver callback: "domCounter.last = Date.now()"
DomMutation ==
    /\ dom_pc \in {"poll", "sleep"}
    /\ dom_last # wall
    /\ dom_last' = wall
    /\ UNCHANGED <<wall, mono_offset, settle_ms, max_wait, deadline, dom_pc,
                   called_at, age_at_poll, dom_how>>
    /\ DomFrame

\* one pass of "while True" up to the sleep: read last, compute idle, return
\* when idle >= settle_ms or when now_ms() >= deadline
DomPoll ==
    /\ dom_pc = "poll"
    /\ age_at_poll' = wall - dom_last
    /\ IF Idle(dom_last) >= settle_ms
       THEN /\ dom_pc' = "done"
            /\ dom_how' = "stable"
       ELSE IF now_ms >= deadline
            THEN /\ dom_pc' = "done"
                 /\ dom_how' = "deadline"
            ELSE /\ dom_pc' = "sleep"
                 /\ UNCHANGED dom_how
    /\ UNCHANGED <<wall, mono_offset, settle_ms, max_wait, deadline, dom_last,
                   called_at>>
    /\ DomFrame

\* "sleep_ms(min(100, max(10, settle_ms // 4)))"
DomSleep ==
    /\ dom_pc = "sleep"
    /\ wall' = wall + PollInterval(settle_ms)
    /\ dom_pc' = "poll"
    /\ UNCHANGED <<mono_offset, settle_ms, max_wait, deadline, dom_last,
                   called_at, age_at_poll, dom_how>>
    /\ DomFrame

NextDom ==
    \/ CallWaitForDomStable
    \/ DomMutation
    \/ DomPoll
    \/ DomSleep

SpecDom == InitDom /\ [][NextDom]_vars

\* ------------------------------------------------------------------
\* Properties of Engine.run_workflow (specification Spec)
\* ------------------------------------------------------------------
Starts(t) == { p \in DOMAIN t : t[p].ev = "start" }

EndsOk(t) == { p \in DOMAIN t : t[p].ev = "end" /\ t[p].how = "ok" }

InLoop(a) == a.phase \in {"exec", "auth", "reexec", "record"} /\ a.idx \in 1..Len(wf.steps)

\* C1: the steps of one run are started in workflow order with 1-based
\* indices: the k-th step started is step k, step i+1 is started only after
\* the processing of step i ended as ok or skipped, every step ends only after
\* it was executed, nothing is started after a fatal failure, and a run that
\* ends ok has started every step of the workflow.
C1_StepsInOrder ==
    /\ \A p \in Starts(trace) :
          /\ trace[p].i = 1 + Cardinality({ q \in Starts(trace) : q < p })
          /\ trace[p].i > 1 =>
                \E q \in 1..(p - 1) :
                    /\ trace[q].ev = "end"
                    /\ trace[q].i = trace[p].i - 1
                    /\ trace[q].how \in {"ok", "skipped"}
          /\ ~ \E q \in 1..(p - 1) : trace[q].ev = "end" /\ trace[q].how = "failed"
    /\ \A p \in DOMAIN trace :
          trace[p].ev = "end" =>
              \E q \in 1..(p - 1) : trace[q].ev = "exec" /\ trace[q].i = trace[p].i
    /\ (pc = "done" /\ result.ok = TRUE) =>
          Cardinality(Starts(trace)) = Len(wf.steps)

\* C1 witness: step 2 has been started after step 1 failed and was skipped.
C1_Witness ==
    \E p \in Starts(trace) :
        /\ trace[p].i = 2
        /\ \E q \in 1..(p - 1) : trace[q] = Event("end", 1, "skipped")

\* C2: whenever an execution of a step raises, a tolerated failure (optional
\* step or CONTINUE_ON_ERROR) is not what ends the run, and a failure that is
\* not tolerated ends it: no later step is started and the result is ok:false.
C2_FailurePolicy ==
    \A p \in DOMAIN trace :
        (trace[p].ev = "exec" /\ trace[p].how = "raise") =>
            IF Tolerated(wf.steps[trace[p].i])
            THEN ~ (abortAt.phase \in {"exec", "reexec"} /\ abortAt.idx = trace[p].i)
            ELSE /\ abortAt.phase \in {"exec", "reexec"}
                 /\ abortAt.idx = trace[p].i
                 /\ ~ \E q \in Starts(trace) : q > p
                 /\ pc = "done" => result.ok = FALSE

\* C3: a run that aborted on an exception raised inside an iteration of the
\* step loop returns a result whose failed_step names the index, action and
\* label of the step of that iteration.
C3_FailedStepNamed ==
    (pc = "done" /\ result.ok = FALSE /\ InLoop(abortAt)) =>
        /\ "failed_step" \in DOMAIN result
        /\ result.failed_step = FailedStepInfo(abortAt.idx, wf.steps[abortAt.idx])

\* C4: once the run directory is prepared no exception leaves run_workflow,
\* and a finished call has returned ok or not-ok with the run directory, plus
\* an error message and an error kind when not ok.
C4_AlwaysAResult ==
    /\ run_dir # None => pc # "raised"
    /\ pc = "done" =>
          /\ result.ok \in BOOLEAN
          /\ result.run_dir = run_dir
          /\ result.ok = FALSE => {"error", "error_type"} \subseteq DOMAIN result

\* C5: after a run that ends ok:true, every optional step that failed has an
\* entry in the per-step list at its position.
C5_SkippedStepListed ==
    (pc = "done" /\ result.ok = TRUE) =>
        \A i \in 1..Len(wf.steps) :
            (wf.steps[i].optional /\ \E p \in DOMAIN trace : trace[p] = Event("end", i, "skipped"))
                => \E k \in DOMAIN steps_meta : steps_meta[k].step_number = i

\* C6: the per-step records are appended in execution order: the k-th record
\* belongs to the k-th step that completed, its step_number is that step's
\* 1-based workflow index and it describes that step; the numbers are strictly
\* increasing, so no step has two records, re-executed or not.
C6_RecordsInOrder ==
    /\ \A k \in DOMAIN steps_meta :
          /\ steps_meta[k].step_number \in 1..Len(wf.steps)
          /\ steps_meta[k].description = wf.steps[steps_meta[k].step_number].name
          /\ steps_meta[k].action = wf.steps[steps_meta[k].step_number].action
          /\ \E p \in EndsOk(trace) :
                /\ trace[p].i = steps_meta[k].step_number
                /\ Cardinality({ q \in EndsOk(trace) : q <= p }) = k
    /\ \A k, l \in DOMAIN steps_meta :
          k < l => steps_meta[k].step_number < steps_meta[l].step_number
    /\ Len(steps_meta) = Cardinality(EndsOk(trace))

\* C6 witness: two records exist and the step of the second one was executed
\* twice (re-executed after re-authentication), step 1 having been skipped or not.
C6_Witness ==
    /\ Len(steps_meta) = 2
    /\ Cardinality({ p \in DOMAIN trace : trace[p].ev = "exec" /\ trace[p].i = 2 }) = 2

\* the events of the authentication sub-protocol that follow the closing of
\* the headless session, in the order the claim gives them
AuthOrder == <<"open_vis", "navigate_vis", "human_confirm", "persist", "close_vis",
               "open_headless">>

\* positions of the trace where the sub-protocol is entered
AuthEntries(t) == { p \in DOMAIN t : t[p].ev = "close_headless" /\ t[p].how = "auth" }

ExecsOf(i) == { p \in DOMAIN trace : trace[p].ev = "exec" /\ trace[p].i = i }

\* C11: every entry into the authentication sub-protocol is followed, as far as
\* the run got, by: visible session opened, navigated, human confirmation,
\* session state persisted, visible session closed, headless session re-opened
\* carrying the persisted state, and then the triggering step executed (step 1
\* started, for the entry at the top of the run); an exception inside the
\* protocol may only cut the sequence short after closing the visible session;
\* the headless and the visible session are never open together.
C11_AuthProtocolOrder ==
    /\ ~ (browser = "open" /\ vis = "open")
    /\ \A p \in AuthEntries(trace) :
          /\ \A k \in 1..6 :
                p + k <= Len(trace) =>
                    \/ trace[p + k].ev = AuthOrder[k]
                    \/ /\ trace[p + k].ev = "close_vis"
                       /\ p + k = Len(trace)
                       /\ abortAt.phase = "auth"
          /\ p + 6 <= Len(trace) => trace[p + 6].how = "with_state"
          /\ p + 7 <= Len(trace) =>
                IF trace[p].i = 0
                THEN \/ trace[p + 7] = Event("start", 1, None)
                     \/ (Len(wf.steps) = 0 /\ trace[p + 7].ev = "close_headless")
                ELSE trace[p + 7].ev = "exec" /\ trace[p + 7].i = trace[p].i

AuthPcs == {"auth_close", "auth_vis", "auth_ensure", "auth_wait", "auth_persist",
            "auth_visclose", "auth_reopen", "reexec"}

\* C12: with interactive_auth false no visible session is ever opened and the
\* run is never at, nor has passed, the wait for human input, whatever
\* use_storage_state, the existence of the state file and the URLs reached.
C12_NoHumanWaitWhenDisabled ==
    ~ interactive_auth =>
        /\ vis = "none"
        /\ pc \notin AuthPcs
        /\ \A p \in DOMAIN trace :
              trace[p].ev \notin {"open_vis", "navigate_vis", "human_confirm", "persist",
                                  "close_vis"}
        /\ AuthEntries(trace) = {}

\* C12 witness: a finished ok run with interactive_auth false of a workflow
\* that uses a persisted session whose file does not exist, one of whose goto
\* steps landed on a login URL.
C12_Witness ==
    /\ ~ interactive_auth
    /\ wf.use_storage_state
    /\ ~ storage_exists
    /\ pc = "done"
    /\ result.ok = TRUE
    /\ \E k \in DOMAIN steps_meta :
          steps_meta[k].action = "goto" /\ _looks_like_login(steps_meta[k].url)

\* C13: a run of a workflow with use_storage_state false never enters the
\* authentication sub-protocol: its headless session is never closed to be
\* re-opened, no visible session is opened, and no step is executed twice.
C13_NoAuthWithoutOptIn ==
    ~ wf.use_storage_state =>
        /\ AuthEntries(trace) = {}
        /\ vis = "none"
        /\ \A i \in 1..Len(wf.steps) : Cardinality(ExecsOf(i)) <= 1

\* the step loop completed and the metadata block raised
MetadataFailed ==
    /\ pc \in {"close", "abort", "done"}
    /\ abortAt.phase \in {None, "close"}
    /\ ~ metadata_json.written

RecordedBefore(recs, k) == IF k = 1 THEN <<>> ELSE recs[k - 1].url

\* the tag the priority rule gives the k-th record, from the record's own
\* step number, modal flag and URL
ReasonByPriority(recs, k) ==
    IF recs[k].step_number = 1 THEN "workflow_start"
    ELSE IF recs[k].has_modal THEN "modal_appeared"
    ELSE IF recs[k].url # RecordedBefore(recs, k) THEN "url_changed"
    ELSE "step_executed"

\* C21: every per-step metadata record, in steps_meta and in the steps list
\* of metadata.json, carries one capture_reason, the one the priority rule
\* gives: workflow_start for step 1, else modal_appeared if a modal was
\* detected, else url_changed if the URL differs from the URL of the record
\* before it, else step_executed.
C21_CaptureReasonPriority ==
    /\ \A k \in DOMAIN steps_meta :
          steps_meta[k].capture_reason = ReasonByPriority(steps_meta, k)
    /\ \A k \in DOMAIN metadata_json.steps :
          metadata_json.steps[k].capture_reason = ReasonByPriority(metadata_json.steps, k)

\* C21 witness: metadata.json is written with a record of a later step where
\* a modal was detected and the URL changed as well, tagged modal_appeared.
C21_Witness ==
    /\ metadata_json.written
    /\ \E k \in DOMAIN metadata_json.steps :
          /\ k > 1
          /\ metadata_json.steps[k].has_modal
          /\ metadata_json.steps[k].url # metadata_json.steps[k - 1].url
          /\ metadata_json.steps[k].capture_reason = "modal_appeared"

\* the number of events e in the trace
CountEv(e) == Cardinality({ p \in DOMAIN trace : trace[p].ev = e })

\* C28: when run_workflow returns, with ok true or false, every browser the
\* run launched has been closed: the headless and the visible browser the
\* variables refer to are not open, and every launch of the run (the initial
\* headless one, every visible login browser, every re-opened headless one)
\* has its close; at no time is a launched browser that is still open lost
\* from the variables.
C28_AllBrowsersClosed ==
    /\ CountEv("open_headless") - CountEv("close_headless")
          = IF browser = "open" THEN 1 ELSE 0
    /\ CountEv("open_vis") - CountEv("close_vis") = IF vis = "open" THEN 1 ELSE 0
    /\ pc = "done" => (browser # "open" /\ vis # "open")

\* C28 witness: a run that launched a visible login browser and a second
\* headless browser in the step loop and then failed has returned.
C28_Witness ==
    /\ pc = "done"
    /\ result.ok = FALSE
    /\ CountEv("open_headless") >= 2
    /\ CountEv("open_vis") >= 1
    /\ abortAt.phase \in {"reexec", "record"}

\* per step: at most one mid-run re-authentication, for a goto step only, at
\* most two executions, the second one only after a re-authentication; once
\* the re-execution is over the step was executed exactly twice
ReauthBounded ==
    LET auths == AuthEntries(trace)
        execs == { p \in DOMAIN trace : trace[p].ev = "exec" }
        reopens == { p \in DOMAIN trace : trace[p].ev = "open_headless" }
    IN  /\ \A i \in 1..Len(wf.steps) :
              LET nExec == Cardinality({ p \in execs : trace[p].i = i })
                  authsOf == { p \in auths : trace[p].i = i }
                  reopened == \E p \in reopens : trace[p].i = i
              IN  /\ Cardinality(authsOf) <= 1
                  /\ authsOf # {} => wf.steps[i].action = "goto"
                  /\ nExec <= 2
                  /\ nExec = 2 => reopened
                  /\ (reopened /\ (idx > i \/ pc \in {"record", "abort", "done"}))
                        => nExec = 2
        /\ Cardinality({ p \in auths : trace[p].i >= 1 }) <= Len(wf.steps)
        /\ Cardinality(execs) <= 2 * Len(wf.steps)

\* the statements of run_workflow in the order control passes them inside one
\* iteration (and before the first one)
PcOrder == <<"idle", "manifest", "launch", "session", "loop", "exec", "auth_close",
             "auth_vis", "auth_ensure", "auth_wait", "auth_persist", "auth_visclose",
             "auth_reopen", "reexec", "record">>

PcPos(q) == CHOOSE k \in DOMAIN PcOrder : PcOrder[k] = q

\* a measure of what a run has still to do: the iterations left, then the
\* statements left in the iteration, then the statements after the loop
Remaining ==
    CASE pc \in {"done", "raised"} -> 0
      [] pc = "abort" -> 1
      [] pc = "close" -> 2
      [] pc = "finalize" -> 3
      [] OTHER -> (MaxSteps + 1 - idx) * (Len(PcOrder) + 1) + (Len(PcOrder) - PcPos(pc)) + 4

\* every step of run_workflow brings the run closer to its end
Progresses == Remaining' < Remaining

\* C29: each goto step triggers at most one mid-run re-authentication, after
\* which the step is re-executed exactly once and the URL is not checked
\* again; a run of N steps performs at most N mid-run re-authentications and
\* at most 2N step executions; and the loop cannot repeat: every step the
\* run takes leaves it strictly less to do, so it reaches its end or aborts.
C29_ReauthOncePerStep == []ReauthBounded /\ [][Progresses]_vars

\* C29 witness: the run has ended after a step that was re-executed landed on
\* a login URL again, which is the URL of its record.
C29_Witness ==
    /\ pc = "done"
    /\ \E k \in DOMAIN steps_meta :
          /\ Cardinality(ExecsOf(steps_meta[k].step_number)) = 2
          /\ _looks_like_login(steps_meta[k].url)

\* ------------------------------------------------------------------
\* Properties of the error kind of a failed step (specification SpecKinds)
\* ------------------------------------------------------------------
\* the kinds a failing selector step (a timeout, an element never found) raises
TransientKinds ==
    { OpRaises(a, p) : a \in SelectorActions, p \in PageFacts } \ {None}

\* C22: when a failing assert_visible, assert_text or assert_url_contains
\* step fails the run, the error_type of the result is not a kind that
\* timeouts and selector failures raise.
C22_AssertionKindDistinct ==
    (kpc = "failed" /\ kstep.action \in AssertActions) =>
        error_type \notin TransientKinds

\* ------------------------------------------------------------------
\* Properties of ModalDetector.detect_active (specification SpecModal)
\* ------------------------------------------------------------------
\* the candidates that are visible and whose center is within the viewport
Qualifying == { k \in DOMAIN candidates :
                  candidates[k].visible /\ candidates[k].center_in }

\* the first-seen candidate of highest z-index among those of S
TopOf(S) ==
    CHOOSE k \in S :
        \A j \in S : \/ ZOf(candidates[k]) > ZOf(candidates[j])
                     \/ (ZOf(candidates[k]) = ZOf(candidates[j]) /\ k <= j)

\* C23: detect_active returns, among the candidates that are visible and
\* whose center lies within the viewport, the one of highest z-index ("auto"
\* counting as 0), the first-seen one on ties, and None exactly when no
\* candidate qualifies.
C23_HighestQualifyingModal ==
    dpc = "done" =>
        IF Qualifying = {} THEN detected = 0 ELSE detected = TopOf(Qualifying)

\* ------------------------------------------------------------------
\* Properties of the animation wait (specifications SpecAnim, SpecAnimLive)
\* ------------------------------------------------------------------
\* at most 10 iterations, no sleep above 2000 ms, at most 20000 ms of sleep
AnimBounded ==
    /\ polls <= MaxPolls
    /\ longest <= SleepCapMs
    /\ slept <= MaxPolls * SleepCapMs

\* the function has returned (or the page call raised out of it)
AnimTerminated == apc \in {"done", "raised"}

\* C24: the animation wait always terminates; it performs at most 10
\* detection iterations, each sleep is at most 2000 ms and its total sleep
\* never exceeds 20000 ms, whatever the page reports.
C24_AnimationWaitBounded == []AnimBounded /\ <>AnimTerminated

\* C24 witness: the wait returned after ten capped sleeps, 20000 ms in all.
C24_Witness ==
    /\ apc = "done"
    /\ polls = MaxPolls
    /\ slept = MaxPolls * SleepCapMs

\* a page whose only animated element has a transition of delay 0
SingleTransition ==
    /\ apage.tDur > 0
    /\ apage.tDelay = 0
    /\ apage.aDur = 0

\* C25: with a single transition of duration D and delay 0 and idle margin
\* m > 0, the wait returns only after at least D + m of sleep, and with no
\* more than one further polling cycle (one sleep, of at most 2000 ms)
\* beyond that threshold.
C25_ReturnsSoonAfterTransition ==
    (apc = "done" /\ SingleTransition /\ min_idle_ms > 0) =>
        /\ slept >= apage.tDur + min_idle_ms
        /\ slept <= apage.tDur + min_idle_ms + SleepCapMs

\* ------------------------------------------------------------------
\* Properties of wait_for_dom_stable (specification SpecDom)
\* ------------------------------------------------------------------
\* C26: wait_for_dom_stable returns at the first poll at which the last DOM
\* mutation is at least settle_ms old (the time elapsed since that mutation),
\* or at the deadline if that never happens: it goes on sleeping only after a
\* poll that found the mutation younger than settle_ms, it returns by the
\* deadline only then, and it never waits longer than max_wait plus one poll
\* interval.
C26_ReturnsWhenSettled ==
    /\ dom_pc = "sleep" => age_at_poll < settle_ms
    /\ (dom_pc = "done" /\ dom_how = "deadline") => age_at_poll < settle_ms
    /\ (dom_pc = "done" /\ dom_how = "stable") => age_at_poll >= settle_ms
    /\ dom_pc = "done" => wall - called_at <= max_wait + PollInterval(settle_ms)

\* ------------------------------------------------------------------
\* Properties of retry and the wrappers (specification SpecRetry)
\* ------------------------------------------------------------------
\* C7: retry(fn, tries=n), n >= 1, with an fn that raises on its first k
\* invocations: for k < n it returns after exactly k+1 invocations and k
\* sleeps; for k >= n it raises fn's last exception after exactly n invocations.
C7_RetryBudget ==
    (rpc = "done" /\ caller = "retry" /\ tries >= 1) =>
        IF failFirst < tries
        THEN /\ outcome.kind = "return"
             /\ Len(calls) = failFirst + 1
             /\ Len(sleeps) = failFirst
        ELSE /\ outcome.kind = "raise"
             /\ outcome.exc = calls[Len(calls)].exc
             /\ Len(calls) = tries

\* C10: a wrapper called with retries = r runs choose-then-act at most r+1
\* times, choose() on every attempt, and when every attempt failed it raises
\* ActionRetryError caused by the exception of the last attempt.
C10_WrapperAttempts ==
    caller \in Wrappers =>
        /\ Len(calls) <= retries + 1
        /\ \A c \in DOMAIN calls : calls[c].choose
        /\ (rpc = "done" /\ \A c \in DOMAIN calls : calls[c].exc # NoExc) =>
              /\ outcome.kind = "raise"
              /\ outcome.exc.type = "ActionRetryError"
              /\ outcome.cause = calls[Len(calls)].exc

\* ------------------------------------------------------------------
\* Properties of LocatorStrategy.choose (specification SpecChoose)
\* ------------------------------------------------------------------
Positions == 0..(Len(selectors) - 1)

Lowest(S) == CHOOSE i \in S : \A j \in S : i <= j

\* candidates with at least one match whose first match is visible when checked
VisibleOnes == { i \in Positions : Count(Sel(i)) = "some" /\ IsVisible(Sel(i)) = "yes" }

\* candidates with at least one match
PresentOnes == { i \in Positions : Count(Sel(i)) = "some" }

\* candidates with at least one match whose visibility check answered "not visible"
HiddenOnes == { i \in Positions : Count(Sel(i)) = "some" /\ IsVisible(Sel(i)) = "no" }

\* candidates whose probing ended in a diagnostic: no match, or an error raised
\* by count() or by the visibility check
FailedOnes ==
    { i \in Positions :
        \/ Count(Sel(i)) \in {"zero", "error"}
        \/ (require_visible /\ Count(Sel(i)) = "some" /\ IsVisible(Sel(i)) = "error") }

ReturnedAs(i, how) == chosen.status = "return" /\ chosen.index = i /\ chosen.how = how

\* the outcome of choose when "visible" candidates are tried first and the
\* wait falls on the lowest candidate of the set present
ChooseOutcome(present) ==
    IF VisibleOnes # {}
    THEN /\ ReturnedAs(Lowest(VisibleOnes), "visible")
         /\ waited = <<>>
    ELSE IF present # {}
         THEN /\ waited = <<Lowest(present)>>
              /\ WaitFor(Sel(Lowest(present))) = "visible" =>
                    ReturnedAs(Lowest(present), "state-wait")
              /\ WaitFor(Sel(Lowest(present))) # "visible" =>
                    chosen.status = "SelectorNotFound"
         ELSE /\ waited = <<>>
              /\ chosen.status = "SelectorNotFound"

DiagIndexes(errs) == [k \in DOMAIN errs |-> errs[k].index]

\* C9 as stated (for the default call, require_visible true): when choose
\* raises SelectorNotFound every candidate of the list has contributed its
\* diagnostic, in increasing candidate index.
C9_AsStated ==
    (cpc = "done" /\ require_visible /\ chosen.status = "SelectorNotFound") =>
        DiagIndexes(errors) = [k \in 1..Len(selectors) |-> k - 1]

\* C9 amended: when choose returns no candidate it raises SelectorNotFound,
\* and the message lists, in increasing candidate index and once each, exactly
\* the candidates that had no match or whose check raised an error (candidates
\* that matched but were not visible contribute nothing); with no diagnostic at
\* all the message is "<none>".
C9_DiagnosticsInOrder ==
    (cpc = "done" /\ chosen.status # "return") =>
        /\ chosen.status = "SelectorNotFound"
        /\ \A k, l \in DOMAIN errors : k < l => errors[k].index < errors[l].index
        /\ { errors[k].index : k \in DOMAIN errors } = FailedOnes
        /\ \A k \in DOMAIN errors :
              errors[k].what = IF Count(Sel(errors[k].index)) = "zero"
                               THEN "none found" ELSE "error"
        /\ chosen.message = IF FailedOnes = {} THEN <<Diag(0 - 1, "<none>")>> ELSE errors

\* C9 witness: SelectorNotFound for [#missing, #also-missing] with both listed.
C9_Witness ==
    /\ cpc = "done"
    /\ chosen.status = "SelectorNotFound"
    /\ Len(selectors) = 2
    /\ Sel(0) = "missing"
    /\ Sel(1) = "missing"
    /\ DiagIndexes(chosen.message) = <<0, 1>>

\* ------------------------------------------------------------------
\* Properties of load_workflows_file (specification SpecLoad)
\* ------------------------------------------------------------------
DocPositions == 1..Len(file.docs)

\* documents that are not empty
NonEmptyDocs == { i \in DocPositions : file.docs[i].kind # "null" }

\* documents the load fails on: not a mapping, or rejected by validation
FailingDocs == { i \in DocPositions : file.docs[i].kind \in {"scalar", "invalid", "legacy"} }

IsNonEmptyDoc(d) == d.kind # "null"

C30_LoadersAgree ==
    (lpc = "both" /\ file.exists /\ file.parses /\ Len(file.docs) = 1) =>
        /\ loaded.status = "ok" <=> single.status = "ok"
        /\ loaded.status = "ok" => loaded.workflows = <<single.workflow>>

\* ------------------------------------------------------------------
\* Properties of the screenshot step (specification SpecShot)
\* ------------------------------------------------------------------
IsRich(c) == c.how = "rich"

\* the steps that completed through the rich capture path, in completion order
RichCompleted == SelectSeq(completed, IsRich)

\* C17: at every moment of a run captures.jsonl holds exactly one line for
\* each screenshot step that has completed through the rich capture path, in
\* step order and carrying that step's index, and nothing else: no line for a
\* step of another kind, for a step that fell back or failed, or for a retry.
C17_OneLinePerRichCapture ==
    /\ Len(captures_jsonl) = Len(RichCompleted)
    /\ \A k \in DOMAIN captures_jsonl :
          /\ captures_jsonl[k].step_index = RichCompleted[k].i
          /\ captures_jsonl[k].step_action = "screenshot"
          /\ shot_steps[captures_jsonl[k].step_index].action = "screenshot"
    /\ \A k, l \in DOMAIN captures_jsonl :
          k < l => captures_jsonl[k].step_index < captures_jsonl[l].step_index

\* C17 witness: of two screenshot steps the first completed by the fallback on
\* a retry and the second by the rich path; the file has the second's line only.
C17_Witness ==
    /\ spc = "done"
    /\ Len(shot_steps) = 2
    /\ completed = <<[i |-> 1, how |-> "fallback"], [i |-> 2, how |-> "rich"]>>
    /\ sidecars = {1, 2}
    /\ captures_jsonl = <<[step_index |-> 2, step_action |-> "screenshot"]>>

\* C18: a screenshot step whose rich path raised and whose bare screenshot
\* write succeeded has succeeded with the image written, and that image has
\* no sidecar.
C18_FallbackWithoutSidecar ==
    \A k \in DOMAIN completed :
        completed[k].how = "fallback" =>
            /\ completed[k].i \in images
            /\ completed[k].i \notin sidecars

\* ------------------------------------------------------------------
\* Properties of several runs in one process (specification SpecRuns)
\* ------------------------------------------------------------------
\* C14: any two runs, whether they overlap or follow one another and whatever
\* their site and task, have distinct run directories.
C14_DistinctRunDirs ==
    \A r1, r2 \in RunIds :
        (r1 # r2 /\ run_dirs[r1] # NoDir /\ run_dirs[r2] # NoDir) =>
            run_dirs[r1] # run_dirs[r2]

\* C15: the run.log of a run holds only records emitted by that run.
C15_RunLogScoped ==
    \A r \in RunIds : \A k \in DOMAIN run_log[r] : run_log[r][k].by = r

\* ------------------------------------------------------------------
\* Properties of the run command (specification SpecCli)
\* ------------------------------------------------------------------
\* run_workflow was called for every document of the file collected at w
RanEveryDocument(w) ==
    /\ Loads(workflows[w])
    /\ wstarted[w] = NDocs(workflows[w])

\* every document of the file collected at w was run and returned ok
EveryDocumentOk(w) ==
    /\ RanEveryDocument(w)
    /\ Len(wresults[w]) = NDocs(workflows[w])
    /\ AllOk(wresults[w])

\* C20: when the run command given target files exits after running them,
\* every target was collected; every document of every target that loads was
\* run, the k-th with the k-th Engine created for that file; the exit status
\* is 0 if and only if every document of every target was run and its result
\* is ok; and the combined result of a file of several documents is ok
\* exactly when all its documents ran ok.
C20_RunsEveryDocument ==
    (cli_pc = "exited" /\ cli_mode = "targets" /\ cli_files # <<>>) =>
        /\ workflows = cli_files
        /\ \A w \in DOMAIN workflows :
              Loads(workflows[w]) =>
                  /\ RanEveryDocument(w)
                  /\ \A k \in DOMAIN wresults[w] : wresults[w][k].engine = k
        /\ exit_code \in {0, 1}
        /\ exit_code = 0 <=> \A w \in DOMAIN workflows : EveryDocumentOk(w)
        /\ \A r \in DOMAIN results :
              results[r].kind = "combined" => (results[r].ok <=> AllOk(wresults[results[r].w]))

\* C27: every printed outcome line reports the result of the run of the
\* workflow file it names, in sequential and in parallel mode.
C27_LineReportsOwnRun ==
    cli_pc = "exited" =>
        \A k \in DOMAIN printed : printed[k].of = printed[k].fp

====
